---------------------------- MODULE Spec2Model ----------------------------
(***************************************************************************)
(* A model of the page-level PDF content interpreter of src/src/lib.rs:    *)
(* the text state machine (collect_text_blocks), the graphics state        *)
(* machine (collect_positioned_images) and caption attachment              *)
(* (assign_captions_to_images / assign_captions_to_objects).               *)
(*                                                                         *)
(* Numbers.  The program computes in f32.  The model computes in exact     *)
(* integers: every length (matrix e and f, font size, spacings, leading,   *)
(* rise, displacements, run and image coordinates) is counted in units of  *)
(* 1/Unit point, so that the divisions by 1000 and by 100 of the program   *)
(* are exact on the operands used here.  Matrix coefficients a, b, c, d,   *)
(* glyph widths (1/1000 em) and the horizontal scale (percent) are plain   *)
(* integers.  Floating-point rounding, infinities and NaN are not          *)
(* modelled.  Layout geometry (captions) is counted in units of 1/Milli    *)
(* point, so that the epsilon 1e-3 of the program is 1.                    *)
(***************************************************************************)
EXTENDS Integers, Sequences, FiniteSets, TLC

VARIABLES
    api,              \* the page operation being run: which pass scans the stream
    stream,           \* the operators of the content stream consumed so far
    state,            \* TextState of collect_text_blocks
    blocks,           \* Vec<TextBlock> of collect_text_blocks
    ctm,              \* CTM of collect_positioned_images
    stack,            \* save/restore stack of CTM snapshots
    images,           \* Vec<PositionedImage>
    inline_index,     \* inline image counter
    result,           \* "ok" while the pass runs, the message once it returned Err
    text_layouts,     \* Vec<FinalTextLayout> (sorted by build_text_layouts)
    image_layouts,    \* Vec<ImageLayout>
    object_layouts,   \* Vec<ObjectLayout>
    caption_assigned, \* Vec<bool>, one flag per text layout
    pass,             \* position of the running operation in its code
    cursor,           \* index of the loop of the running pass
    lastPick,         \* what the last caption step saw and chose
    rectangles,       \* region_images: the rectangles asked for
    dpi,              \* region_images: the resolution asked for
    bitmap,           \* region_images: size of the rendered page, once rendered
    regions,          \* region_images: Vec<RegionImage>
    outline,          \* rectangle_outline: the record returned
    grouped_layouts,  \* build_text_layouts: the layouts before the final sort
    segments,         \* Vec<(String, Vec<(f32, f32)>)> of collect_paths
    current_point,    \* collect_paths: Option<Point>
    subpath_start,    \* collect_paths: Option<Point>
    resources,        \* Option: the XObject table of the page resources
    given_image,      \* extract_image: the ImageXObject given
    image_result,     \* extract_image: the Result returned
    library_loads,    \* times load_pdfium bound the library in this process
    page,             \* a page operation: the page asked for
    operation,        \* a page operation: which entry point is called
    returned,         \* a page operation: the Result returned, once returned
    calls             \* number of earlier calls made in this process

vars == <<api, stream, state, blocks, ctm, stack, images, inline_index,
          result, text_layouts, image_layouts, object_layouts,
          caption_assigned, pass, cursor, lastPick,
          rectangles, dpi, bitmap, regions, outline,
          grouped_layouts, segments, current_point, subpath_start,
          resources, given_image, image_result,
          library_loads, page, operation, returned, calls>>

textVars == <<state, blocks>>
gfxVars == <<ctm, stack, images, inline_index, result>>
layoutVars == <<text_layouts, image_layouts, object_layouts,
                caption_assigned, pass, cursor, lastPick, grouped_layouts>>
regionVars == <<rectangles, dpi, bitmap, regions, outline, library_loads>>
pathVars == <<segments, current_point, subpath_start>>
imageVars == <<resources, given_image, image_result>>
pageVars == <<page, operation, returned, calls>>

-----------------------------------------------------------------------------
(* Units and bounds *)

Unit == 1000 * 100
Milli == 10 * 10 * 10

MaxTextOps == 3
MaxGfxOps == 4

MaxImages == 2
MaxObjects == 1
MaxTextLayouts == 2
MaxRects == 2
MaxLoads == 2
MaxCandidates == 3
MaxRuns == 3
MaxSegments == 3
MaxPageOps == 2
MaxCalls == 1

\* Transform is taken only while every CTM coefficient is within MaxCoef, so
\* that the model's integers stay in range.
MaxCoef == 1000000

NoOp == [op |-> "none"]

\* The number of operators consumed, and the operator interpreted last.
pos == Len(stream)
lastOp == IF stream = <<>> THEN NoOp ELSE stream[Len(stream)]

-----------------------------------------------------------------------------
(* Matrix algebra *)

Mat(a, b, c, d, e, f) == [a |-> a, b |-> b, c |-> c, d |-> d, e |-> e, f |-> f]

Identity == Mat(1, 0, 0, 1, 0, 0)

multiply_matrix(left, right) ==
    [a |-> left.a * right.a + left.b * right.c,
     b |-> left.a * right.b + left.b * right.d,
     c |-> left.c * right.a + left.d * right.c,
     d |-> left.c * right.b + left.d * right.d,
     e |-> left.e * right.a + left.f * right.c + right.e,
     f |-> left.e * right.b + left.f * right.d + right.f]

apply_matrix_transposed(matrix, point) ==
    <<matrix.a * point[1] + matrix.b * point[2] + matrix.e,
      matrix.c * point[1] + matrix.d * point[2] + matrix.f>>

apply_matrix(matrix, point) ==
    <<matrix.a * point[1] + matrix.c * point[2] + matrix.e,
      matrix.b * point[1] + matrix.d * point[2] + matrix.f>>

concat_matrix(current, next) ==
    [a |-> current.a * next.a + current.b * next.c,
     b |-> current.a * next.b + current.b * next.d,
     c |-> current.c * next.a + current.d * next.c,
     d |-> current.c * next.b + current.d * next.d,
     e |-> current.a * next.e + current.c * next.f + current.e,
     f |-> current.b * next.e + current.d * next.f + current.f]

\* The product inner . outer of the PDF imaging model (row vectors:
\* [x' y' 1] = [x y 1] . M), written out from the definition of the
\* matrix product; the reference the claims about composition speak of.
PdfProduct(inner, outer) ==
    [a |-> inner.a * outer.a + inner.b * outer.c,
     b |-> inner.a * outer.b + inner.b * outer.d,
     c |-> inner.c * outer.a + inner.d * outer.c,
     d |-> inner.c * outer.b + inner.d * outer.d,
     e |-> inner.e * outer.a + inner.f * outer.c + outer.e,
     f |-> inner.e * outer.b + inner.f * outer.d + outer.f]

Translate(tx, ty) == Mat(1, 0, 0, 1, tx, ty)

Min2(x, y) == IF x < y THEN x ELSE y
Max2(x, y) == IF x > y THEN x ELSE y

RECURSIVE MinOf(_)
MinOf(s) == IF Len(s) = 1 THEN s[1] ELSE Min2(s[1], MinOf(Tail(s)))

RECURSIVE MaxOf(_)
MaxOf(s) == IF Len(s) = 1 THEN s[1] ELSE Max2(s[1], MaxOf(Tail(s)))

\* The min/max scan of build_text_block and unit_square_bounds over a
\* non-empty list of finite points.
PointsBounds(pts) ==
    LET xs == [i \in 1..Len(pts) |-> pts[i][1]]
        ys == [i \in 1..Len(pts) |-> pts[i][2]]
    IN <<MinOf(xs), MinOf(ys), MaxOf(xs), MaxOf(ys)>>

unit_square_bounds_unordered(matrix) ==
    LET p0 == apply_matrix(matrix, <<0, 0>>)
        p1 == apply_matrix(matrix, <<1, 1>>)
    IN <<p0[1], p0[2], p1[1], p1[2]>>

unit_square_bounds(matrix) ==
    PointsBounds(<<apply_matrix(matrix, <<0, 0>>),
                   apply_matrix(matrix, <<1, 0>>),
                   apply_matrix(matrix, <<0, 1>>),
                   apply_matrix(matrix, <<1, 1>>)>>)

-----------------------------------------------------------------------------
(* Fonts of the page resources and the string decoder *)

None == [some |-> FALSE]
Some(v) == [some |-> TRUE, value |-> v]

\* The resolved fonts of the page (the HashMap built by collect_fonts):
\*   F1  simple font with a widths table, no ToUnicode map, no descriptor;
\*   F2  simple font without widths; its ToUnicode map sends code 65 to the
\*       empty string and code 72 to "hi"; descriptor metrics (900, -100);
\*   F3  CID font with widths (default 1000), descriptor metrics (880, -120).
\* A TextFont operator may also name "F9", which the page does not define.
Fonts ==
    [F1 |-> [widths |-> Some([table |-> (32 :> 250) @@ (65 :> 500) @@ (72 :> 500)
                                        @@ (86 :> 500) @@ (105 :> 278),
                              default |-> 0]),
             to_unicode |-> None,
             is_cid |-> FALSE,
             metrics |-> None],
     F2 |-> [widths |-> None,
             to_unicode |-> Some((65 :> <<>>) @@ (72 :> <<104, 105>>)),
             is_cid |-> FALSE,
             metrics |-> Some(<<900, -100>>)],
     F3 |-> [widths |-> Some([table |-> (65 :> 600), default |-> 1000]),
             to_unicode |-> None,
             is_cid |-> TRUE,
             metrics |-> Some(<<880, -120>>)]]

\* char::from_u32(code).unwrap_or(U+FFFD): surrogates are no characters.
CharOf(code) == IF code \in 55296..57343 THEN 65533 ELSE code

\* One step of the decode loops: the ToUnicode value of the code when the
\* map has one, else the character of the code itself.
GlyphText(code, map) ==
    IF map.some /\ code \in DOMAIN map.value
    THEN map.value[code]
    ELSE <<CharOf(code)>>

RECURSIVE CodesText(_, _)
CodesText(codes, map) ==
    IF codes = <<>> THEN <<>>
    ELSE GlyphText(Head(codes), map) \o CodesText(Tail(codes), map)

decode_simple(bytes, map) ==
    [text |-> CodesText(bytes, map), codes |-> bytes]

decode_cid_keep_odd_byte(bytes, map) ==
    LET codes == [i \in 1..((Len(bytes) + 1) \div 2) |->
                      IF 2 * i <= Len(bytes)
                      THEN bytes[2 * i - 1] * 256 + bytes[2 * i]
                      ELSE bytes[2 * i - 1]]
    IN [text |-> CodesText(codes, map), codes |-> codes]

decode_cid(bytes, map) ==
    LET codes == [i \in 1..(Len(bytes) \div 2) |->
                      bytes[2 * i - 1] * 256 + bytes[2 * i]]
    IN [text |-> CodesText(codes, map), codes |-> codes]

\* PdfString::to_string_lossy on the byte strings used here (no byte-order
\* mark): an ASCII byte is its character, any other byte is replaced.
fallback_decode(bytes) ==
    [text |-> [i \in 1..Len(bytes) |->
                   IF bytes[i] < 128 THEN bytes[i] ELSE 65533],
     codes |-> bytes]

decode(font, bytes) ==
    IF font.is_cid THEN decode_cid(bytes, font.to_unicode)
    ELSE decode_simple(bytes, font.to_unicode)

glyph_width(font, code) ==
    IF font.widths.some
    THEN (IF code \in DOMAIN font.widths.value.table
          THEN font.widths.value.table[code]
          ELSE font.widths.value.default)
    ELSE 1000

\* fonts.get(name) for the current font of the text state.
LookupFont(current_font) ==
    IF current_font.some /\ current_font.value \in DOMAIN Fonts
    THEN Some(Fonts[current_font.value])
    ELSE None

-----------------------------------------------------------------------------
(* Text state *)

DefaultTextState ==
    [current_font |-> None,
     font_size |-> 12 * Unit,
     char_spacing |-> 0,
     word_spacing |-> 0,
     horizontal_scale |-> 100,
     leading |-> 0,
     text_rise |-> 0,
     text_matrix |-> Identity,
     text_line_matrix |-> Identity]

begin_text_keep_line(st) ==
    [st EXCEPT !.text_matrix = Identity]

begin_text_clearing_spacing(st) ==
    [st EXCEPT !.text_matrix = Identity, !.text_line_matrix = Identity,
               !.char_spacing = 0]

begin_text(st) ==
    [st EXCEPT !.text_matrix = Identity, !.text_line_matrix = Identity]

set_text_matrix(st, matrix) ==
    [st EXCEPT !.text_matrix = matrix, !.text_line_matrix = matrix]

set_font(st, name, size) ==
    [st EXCEPT !.current_font = Some(name), !.font_size = size]

translate_line(st, tx, ty) ==
    LET m == multiply_matrix(st.text_line_matrix, Translate(tx, ty))
    IN [st EXCEPT !.text_line_matrix = m, !.text_matrix = m]

newline_keeping_advance(st) ==
    LET m == multiply_matrix(st.text_matrix, Translate(0, -st.leading))
    IN [st EXCEPT !.text_line_matrix = m, !.text_matrix = m]

newline(st) == translate_line(st, 0, -st.leading)

translate_text(st, tx) ==
    [st EXCEPT !.text_matrix = multiply_matrix(st.text_matrix, Translate(tx, 0))]

RECURSIVE SumAdvances(_, _, _)
SumAdvances(font, codes, st) ==
    IF codes = <<>> THEN 0
    ELSE LET code == Head(codes)
             width == IF font.some THEN glyph_width(font.value, code) ELSE 1000
             advance == (width * st.font_size) \div 1000
                        + st.char_spacing
                        + (IF code = 32 THEN st.word_spacing ELSE 0)
         IN advance + SumAdvances(font, Tail(codes), st)

compute_text_displacement_unscaled(font, codes, st) ==
    SumAdvances(font, codes, st)

compute_text_displacement(font, codes, st) ==
    (SumAdvances(font, codes, st) * st.horizontal_scale) \div 100

DEFAULT_ASCENT == 800
DEFAULT_DESCENT == -200

\* `at` is the stream position of the operator that emitted the block (a
\* history field; the program's TextBlock has no such field).
build_text_block(st, text, displacement, metrics, at) ==
    LET ascent == (metrics[1] * st.font_size) \div 1000
        descent == (metrics[2] * st.font_size) \div 1000
        rise == st.text_rise
        points == <<<<0, rise>>, <<displacement, rise>>,
                    <<0, ascent + rise>>, <<displacement, ascent + rise>>,
                    <<0, descent + rise>>, <<displacement, descent + rise>>>>
        moved == [i \in 1..6 |-> apply_matrix(st.text_matrix, points[i])]
        box == PointsBounds(moved)
        baseline == apply_matrix(st.text_matrix, <<0, rise>>)
    IN [text |-> text, x0 |-> box[1], y0 |-> box[2], x1 |-> box[3], y1 |-> box[4],
        baseline_x |-> baseline[1], baseline_y |-> baseline[2], at |-> at]

\* handle_text_draw on the pair (state, blocks); returns the new pair.
handle_text_draw_prepend(ts, bytes, at) ==
    LET st == ts.state
        font == LookupFont(st.current_font)
        decoded == IF font.some THEN decode(font.value, bytes)
                   ELSE fallback_decode(bytes)
        displacement == compute_text_displacement(font, decoded.codes, st)
        metrics == <<DEFAULT_ASCENT, DEFAULT_DESCENT>>
        block == build_text_block(st, decoded.text, displacement, metrics, at)
    IN IF decoded.text = <<>> THEN ts
       ELSE [state |-> IF displacement # 0
                       THEN translate_text(st, displacement) ELSE st,
             blocks |-> <<block>> \o ts.blocks]

handle_text_draw(ts, bytes, at) ==
    LET st == ts.state
        font == LookupFont(st.current_font)
        decoded == IF font.some THEN decode(font.value, bytes)
                   ELSE fallback_decode(bytes)
        displacement == compute_text_displacement(font, decoded.codes, st)
        metrics == IF font.some /\ font.value.metrics.some
                   THEN font.value.metrics.value
                   ELSE <<DEFAULT_ASCENT, DEFAULT_DESCENT>>
        block == build_text_block(st, decoded.text, displacement, metrics, at)
    IN IF decoded.text = <<>> THEN ts
       ELSE [state |-> IF displacement # 0
                       THEN translate_text(st, displacement) ELSE st,
             blocks |-> Append(ts.blocks, block)]

SpacingAdjustment_unsigned(st, amount) ==
    (((amount * st.font_size) \div 1000) * st.horizontal_scale) \div 100

SpacingAdjustment(st, amount) ==
    ((((-amount) * st.font_size) \div 1000) * st.horizontal_scale) \div 100

RECURSIVE handle_text_adjusted(_, _, _)
handle_text_adjusted(ts, array, at) ==
    IF array = <<>> THEN ts
    ELSE LET item == Head(array)
             after ==
                 IF item.kind = "Text"
                 THEN handle_text_draw(ts, item.text, at)
                 ELSE LET adjustment == SpacingAdjustment(ts.state, item.amount)
                      IN IF adjustment # 0
                         THEN [ts EXCEPT !.state = translate_text(ts.state, adjustment)]
                         ELSE ts
         IN handle_text_adjusted(after, Tail(array), at)

-----------------------------------------------------------------------------
(* Operands of the text operators of the content stream *)

TextMatrices ==
    {Mat(2, 0, 0, 2, 10 * Unit, 20 * Unit),      \* scaled and moved
     Mat(0, 1, -1, 0, 5 * Unit, 0),              \* rotated by 90 degrees
     Mat(-1, 0, 0, 3, 0, 7 * Unit)}              \* mirrored, stretched

Translations == {<<3 * Unit, 4 * Unit>>}

FontChoices ==
    {<<"F1", 10 * Unit>>, <<"F1", 12 * Unit>>, <<"F2", 12 * Unit>>,
     <<"F3", -10 * Unit>>, <<"F9", 12 * Unit>>}

CharSpacings == {1 * Unit}
WordSpacings == {2 * Unit}
HorizontalScales == {50, -100}
Leadings == {14 * Unit}
TextRises == {3 * Unit}

\* PDF strings as byte sequences: "Hi", "A", " A", the empty string, and
\* three bytes (an odd length for the CID font).
PdfStrings == {<<72, 105>>, <<65>>, <<32, 65>>, <<>>, <<0, 65, 66>>}

TextItem(bytes) == [kind |-> "Text", text |-> bytes]
SpacingItem(amount) == [kind |-> "Spacing", amount |-> amount]

AdjustedArrays ==
    {<<TextItem(<<65>>), SpacingItem(100), TextItem(<<86>>)>>,
     <<SpacingItem(-250), TextItem(<<72, 105>>)>>,
     <<SpacingItem(100)>>}

-----------------------------------------------------------------------------
(* Image decoder and the XObject table of the page *)

\* An ImageXObject as extract_image reads it: colour space, bits per
\* component (None: 8), size, whether raw_image_data can fetch the filtered
\* stream, whether image_data can decode it to pixels (only a stream that
\* can be fetched can be decoded), the decoded length, and the outermost
\* filter of the raw stream.
Img(cs, bits, w, h, len, filter) ==
    [color_space |-> cs, bits_per_component |-> bits, width |-> w,
     height |-> h, fetchable |-> TRUE, decodable |-> TRUE, len |-> len,
     filter |-> filter]

GrayImage == Img("DeviceGray", Some(8), 2, 1, 2, "None")
ShortRgbImage == Img("DeviceRGB", None, 2, 1, 5, "FlateDecode")
JpegImage == Img("DeviceCMYK", Some(8), 2, 2, 16, "DCTDecode")
ShortGrayImage == Img("DeviceGray", Some(8), 2, 2, 3, "None")
LongUntaggedImage == Img("None", Some(8), 1, 1, 4, "FlateDecode")

\* The images a single call of extract_image is checked on: every colour
\* space and bit depth of the match, every outermost filter, a stream that
\* cannot be fetched, one that can be fetched but not decoded, and decoded
\* lengths w*h, w*h*3 and neither (for a 2 x 1 image).
ColorSpaces == {"DeviceRGB", "DeviceGray", "DeviceCMYK", "None"}
BitDepths == {None, Some(1), Some(8), Some(16)}
StreamFilters ==
    {"DCTDecode", "JPXDecode", "JBIG2Decode", "CCITTFaxDecode", "FlateDecode",
     "LZWDecode", "None"}
DecodedLengths == {2, 6, 5}

GivenImages ==
    {Some([Img(cs, bits, 2, 1, len, filter)
              EXCEPT !.fetchable = fd[1], !.decodable = fd[2],
                     !.len = IF fd[2] THEN len ELSE 0]) :
        <<cs, bits, len, filter, fd>> \in
            ColorSpaces \X BitDepths \X DecodedLengths \X StreamFilters
                \X {<<FALSE, FALSE>>, <<TRUE, FALSE>>, <<TRUE, TRUE>>}}

Err(msg) == [ok |-> FALSE, msg |-> msg]
Ok(v) == [ok |-> TRUE, value |-> v]

FilterFormat(filter) ==
    CASE filter = "DCTDecode" -> "jpeg"
      [] filter = "JPXDecode" -> "jpx"
      [] filter = "JBIG2Decode" -> "jbig2"
      [] filter = "CCITTFaxDecode" -> "fax"
      [] filter = "FlateDecode" -> "flate"
      [] OTHER -> "raw"

extract_image(image) ==
    LET bits == IF image.bits_per_component.some
                THEN image.bits_per_component.value ELSE 8
        done(format) == Ok([width |-> image.width, height |-> image.height,
                            format |-> format])
    IN IF ~image.decodable THEN Err("image_data")
       ELSE IF image.color_space \in {"DeviceRGB", "None"} /\ bits = 8
       THEN (IF image.len # image.width * image.height * 3
             THEN Err("unexpected RGB image size")
             ELSE done("png"))
       ELSE IF image.color_space = "DeviceGray" /\ bits = 8
       THEN (IF image.len # image.width * image.height
             THEN Err("unexpected grayscale image size")
             ELSE done("png"))
       ELSE IF ~image.fetchable THEN Err("raw_image_data")
       ELSE done(FilterFormat(image.filter))

\* The XObject table of the page resources, when the page has resources
\* (only the image pass reads it): two images (the second with a
\* wrong decoded size), a form XObject, and a reference that does not
\* resolve.  The name "Im9" is not in the table.
XObjects ==
    [Im0 |-> [kind |-> "Image", image |-> GrayImage],
     Im1 |-> [kind |-> "Image", image |-> ShortRgbImage],
     Fm0 |-> [kind |-> "Form"],
     Bad0 |-> [kind |-> "Dangling"]]

XObjectNames == {"Im0", "Im1", "Fm0", "Bad0", "Im9"}

InlineImages ==
    {GrayImage, JpegImage, ShortRgbImage, ShortGrayImage, LongUntaggedImage}

-----------------------------------------------------------------------------
(* collect_text_blocks: one action per operator of the match *)

InitCommon ==
    /\ stream = <<>>
    /\ state = DefaultTextState
    /\ blocks = <<>>
    /\ ctm = Identity
    /\ stack = <<>>
    /\ images = <<>>
    /\ inline_index = 0
    /\ result = "ok"
    /\ segments = <<>>
    /\ current_point = None
    /\ subpath_start = None
    /\ resources \in (IF api = "images" THEN {None, Some(XObjects)}
                                          ELSE {Some(XObjects)})
    /\ given_image \in (IF api = "extract_image" THEN GivenImages ELSE {None})
    /\ image_result = None

InitNoLayout ==
    /\ text_layouts = <<>>
    /\ image_layouts = <<>>
    /\ object_layouts = <<>>
    /\ caption_assigned = <<>>
    /\ pass = "idle"
    /\ cursor = 0
    /\ lastPick = None
    /\ grouped_layouts = <<>>

InitNoRegion ==
    /\ rectangles = <<>>
    /\ dpi = None
    /\ bitmap = None
    /\ regions = <<>>
    /\ outline = None
    /\ library_loads = 0

InitNoPage ==
    /\ page = None
    /\ operation = None
    /\ returned = None
    /\ calls = 0

InitText ==
    /\ InitNoPage
    /\ api = "text_runs"
    /\ InitCommon
    /\ InitNoLayout
    /\ InitNoRegion

\* An operator of the stream as consumed: its operand, and (a history
\* field) the interpreter state in force when it was interpreted.
Entry(op, arg, before) == [op |-> op, arg |-> arg, before |-> before]

TextStep(op, arg, ts) ==
    /\ api = "text_runs"
    /\ pos < MaxTextOps
    /\ stream' = Append(stream, Entry(op, arg, state))
    /\ state' = ts.state
    /\ blocks' = ts.blocks
    /\ UNCHANGED <<api, gfxVars, layoutVars, regionVars, pathVars, imageVars, pageVars>>

Now == [state |-> state, blocks |-> blocks]

BeginText ==
    /\ TextStep("BeginText", <<>>, [Now EXCEPT !.state = begin_text(state)])

EndText ==
    /\ TextStep("EndText", <<>>, Now)

SetTextMatrix(matrix) ==
    /\ TextStep("SetTextMatrix", matrix,
             [Now EXCEPT !.state = set_text_matrix(state, matrix)])

MoveTextPosition(translation) ==
    /\ TextStep("MoveTextPosition", translation,
             [Now EXCEPT !.state = translate_line(state, translation[1],
                                                  translation[2])])

TextNewline ==
    /\ TextStep("TextNewline", <<>>, [Now EXCEPT !.state = newline(state)])

TextFont(name, size) ==
    /\ TextStep("TextFont", <<name, size>>,
             [Now EXCEPT !.state = set_font(state, name, size)])

CharSpacing(char_space) ==
    /\ TextStep("CharSpacing", char_space,
             [Now EXCEPT !.state.char_spacing = char_space])

WordSpacing(word_space) ==
    /\ TextStep("WordSpacing", word_space,
             [Now EXCEPT !.state.word_spacing = word_space])

TextScaling(horiz_scale) ==
    /\ TextStep("TextScaling", horiz_scale,
             [Now EXCEPT !.state.horizontal_scale = horiz_scale])

Leading(leading) ==
    /\ TextStep("Leading", leading,
             [Now EXCEPT !.state.leading = leading])

TextRise(rise) ==
    /\ TextStep("TextRise", rise,
             [Now EXCEPT !.state.text_rise = rise])

TextDraw(text) ==
    /\ TextStep("TextDraw", text,
             handle_text_draw(Now, text, pos + 1))

TextDrawAdjusted(array) ==
    /\ TextStep("TextDrawAdjusted", array,
             handle_text_adjusted(Now, array, pos + 1))

NextText ==
    \/ BeginText
    \/ EndText
    \/ \E matrix \in TextMatrices : SetTextMatrix(matrix)
    \/ \E translation \in Translations : MoveTextPosition(translation)
    \/ TextNewline
    \/ \E font \in FontChoices : TextFont(font[1], font[2])
    \/ \E char_space \in CharSpacings : CharSpacing(char_space)
    \/ \E word_space \in WordSpacings : WordSpacing(word_space)
    \/ \E horiz_scale \in HorizontalScales : TextScaling(horiz_scale)
    \/ \E leading \in Leadings : Leading(leading)
    \/ \E rise \in TextRises : TextRise(rise)
    \/ \E text \in PdfStrings : TextDraw(text)
    \/ \E array \in AdjustedArrays : TextDrawAdjusted(array)

SpecText == InitText /\ [][NextText]_vars

-----------------------------------------------------------------------------
(* collect_positioned_images: one action per operator of the match *)

\* Lengths of the graphics pass are counted in points.
CtmMatrices ==
    {Mat(100, 0, 0, 50, 20, 30),      \* the placement of a 100 x 50 image
     Mat(0, 1, -1, 0, 0, 0),          \* rotation by 90 degrees
     Mat(-1, 0, 0, 1, 5, 0)}          \* mirror in x

Abs(x) == IF x < 0 THEN -x ELSE x

InRange(m) ==
    \A k \in {"a", "b", "c", "d", "e", "f"} : Abs(m[k]) <= MaxCoef

InitGfx ==
    /\ InitNoPage
    /\ api = "images"
    /\ InitCommon
    /\ InitNoLayout
    /\ InitNoRegion

GfxStep(op, arg) ==
    /\ api = "images"
    /\ result = "ok"
    /\ pos < MaxGfxOps
    /\ stream' = Append(stream, Entry(op, arg, [ctm |-> ctm, stack |-> stack,
                                                inline_index |-> inline_index,
                                                images |-> images]))
    /\ UNCHANGED <<api, textVars, layoutVars, regionVars, pathVars, imageVars, pageVars>>

pop_front(s) == [snapshot |-> IF s = <<>> THEN Identity ELSE Head(s),
                 rest |-> IF s = <<>> THEN <<>> ELSE Tail(s)]

\* stack.pop().unwrap_or_default(): the popped snapshot and the rest.
pop(s) == [snapshot |-> IF s = <<>> THEN Identity ELSE s[Len(s)],
           rest |-> IF s = <<>> THEN <<>> ELSE SubSeq(s, 1, Len(s) - 1)]

Save ==
    /\ GfxStep("Save", <<>>)
    /\ stack' = Append(stack, ctm)
    /\ UNCHANGED <<ctm, images, inline_index, result>>

Restore ==
    /\ GfxStep("Restore", <<>>)
    /\ ctm' = pop(stack).snapshot
    /\ stack' = pop(stack).rest
    /\ UNCHANGED <<images, inline_index, result>>

Transform(matrix) ==
    /\ InRange(ctm)
    /\ GfxStep("Transform", matrix)
    /\ ctm' = concat_matrix(ctm, matrix)
    /\ UNCHANGED <<stack, images, inline_index, result>>

PositionedImage(name, bounds, image, at) ==
    [name |-> name, x0 |-> bounds[1], y0 |-> bounds[2], x1 |-> bounds[3],
     y1 |-> bounds[4], image |-> image, at |-> at]

\* An Err of the pass drops the images collected so far: the caller gets
\* the error alone.
Fail_keeping_images(msg) ==
    /\ result' = msg
    /\ UNCHANGED <<ctm, stack, inline_index, images>>

Fail(msg) ==
    /\ result' = msg
    /\ images' = <<>>
    /\ UNCHANGED <<ctm, stack, inline_index>>

XObject_strict(name) ==
    /\ GfxStep("XObject", name)
    /\ IF \/ ~resources.some
          \/ name \notin DOMAIN resources.value
          \/ resources.value[name].kind # "Image"
       THEN Fail("unknown XObject")
       ELSE LET image_data == extract_image(resources.value[name].image)
            IN IF ~image_data.ok THEN Fail(image_data.msg)
               ELSE /\ images' = Append(images,
                           PositionedImage(name, unit_square_bounds(ctm),
                                           image_data.value, pos + 1))
                    /\ UNCHANGED <<ctm, stack, inline_index, result>>

XObject(name) ==
    /\ GfxStep("XObject", name)
    /\ IF ~resources.some \/ name \notin DOMAIN resources.value
       THEN UNCHANGED gfxVars
       ELSE LET xobject == resources.value[name]
            IN IF xobject.kind = "Dangling"
               THEN Fail("reference does not resolve")
               ELSE IF xobject.kind # "Image" THEN UNCHANGED gfxVars
               ELSE LET image_data == extract_image(xobject.image)
                    IN IF ~image_data.ok THEN Fail(image_data.msg)
                       ELSE /\ images' = Append(images,
                                   PositionedImage(name, unit_square_bounds(ctm),
                                                   image_data.value, pos + 1))
                            /\ UNCHANGED <<ctm, stack, inline_index, result>>

inline_name_from_zero(index) == <<"inline", index - 1>>

\* format!("inline_{}", inline_index)
inline_name(index) == <<"inline", index>>

InlineImage(image) ==
    /\ GfxStep("InlineImage", image)
    /\ LET image_data == extract_image(image)
       IN IF ~image_data.ok THEN Fail(image_data.msg)
          ELSE /\ inline_index' = inline_index + 1
               /\ images' = Append(images,
                      PositionedImage(inline_name(inline_index + 1),
                                      unit_square_bounds(ctm),
                                      image_data.value, pos + 1))
               /\ UNCHANGED <<ctm, stack, result>>

NextGfx ==
    \/ Save
    \/ Restore
    \/ \E matrix \in CtmMatrices : Transform(matrix)
    \/ \E name \in XObjectNames : XObject(name)
    \/ \E image \in InlineImages : InlineImage(image)

SpecGfx == InitGfx /\ [][NextGfx]_vars

-----------------------------------------------------------------------------
(* Layout geometry and caption attachment *)

CAPTION_HORIZONTAL_MARGIN == 40
CAPTION_VERTICAL_MARGIN == 80
\* 1e-3 point, in units of 1/Milli point
CAPTION_EPSILON == 1

bbox_union(a, b) ==
    <<Min2(a[1], b[1]), Min2(a[2], b[2]), Max2(a[3], b[3]), Max2(a[4], b[4])>>

axis_gap(a_min, a_max, b_min, b_max) ==
    IF a_max < b_min THEN b_min - a_max
    ELSE IF b_max < a_min THEN a_min - b_max
    ELSE 0

bbox_gaps(a, b) ==
    <<axis_gap(a[1], a[3], b[1], b[3]), axis_gap(a[2], a[4], b[2], b[4])>>

IsCandidate_tall_margin(gaps) ==
    /\ gaps[1] <= CAPTION_HORIZONTAL_MARGIN * Milli
    /\ gaps[2] <= 120 * Milli

IsCandidate(gaps) ==
    /\ gaps[1] <= CAPTION_HORIZONTAL_MARGIN * Milli
    /\ gaps[2] <= CAPTION_VERTICAL_MARGIN * Milli

KeepsBest_prefer_larger(best, x_gap, y_gap) ==
    /\ best.some
    /\ \/ y_gap > best.value.y_gap + CAPTION_EPSILON
       \/ /\ Abs(y_gap - best.value.y_gap) <= CAPTION_EPSILON
          /\ x_gap <= best.value.x_gap + CAPTION_EPSILON

\* The match guard of best_caption_index: the running best is kept.
KeepsBest(best, x_gap, y_gap) ==
    /\ best.some
    /\ \/ y_gap > best.value.y_gap + CAPTION_EPSILON
       \/ /\ Abs(y_gap - best.value.y_gap) <= CAPTION_EPSILON
          /\ x_gap >= best.value.x_gap - CAPTION_EPSILON

RECURSIVE BestScan(_, _, _, _)
BestScan(layouts, caption_bbox, idx, best) ==
    IF idx > Len(layouts) THEN best
    ELSE LET gaps == bbox_gaps(layouts[idx].bbox, caption_bbox)
             next == IF IsCandidate(gaps) /\ ~KeepsBest(best, gaps[1], gaps[2])
                     THEN Some([idx |-> idx, y_gap |-> gaps[2], x_gap |-> gaps[1]])
                     ELSE best
         IN BestScan(layouts, caption_bbox, idx + 1, next)

best_caption_index(layouts, caption_bbox) ==
    LET best == BestScan(layouts, caption_bbox, 1, None)
    IN IF best.some THEN Some(best.value.idx) ELSE None

\* caption_indices of extract_layouts: the indices of the caption layouts,
\* in layout order.
RECURSIVE CaptionIndicesFrom(_, _)
CaptionIndicesFrom(layouts, idx) ==
    IF idx > Len(layouts) THEN <<>>
    ELSE (IF layouts[idx].is_caption THEN <<idx>> ELSE <<>>)
         \o CaptionIndicesFrom(layouts, idx + 1)

caption_indices == CaptionIndicesFrom(text_layouts, 1)

\* A CaptionInfo {text, bbox}; `idx` is the index of the caption's text
\* layout (a history field for telling captions apart).
CaptionInfo(caption, idx) ==
    [text |-> caption.combined, bbox |-> caption.bbox, idx |-> idx]

\* What one iteration of the caption loops saw: the gaps of every layout of
\* the pass to the caption, and the layout chosen.
Pick(kind, caption_idx, layouts, best_idx) ==
    Some([pass |-> kind, caption |-> caption_idx,
          gaps |-> [i \in 1..Len(layouts) |->
                       bbox_gaps(layouts[i].bbox, text_layouts[caption_idx].bbox)],
          chosen |-> best_idx])

AttachCaption_keeping_bbox(layouts, assigned, caption_idx, kind) ==
    LET caption == text_layouts[caption_idx]
        best_idx == best_caption_index(layouts, caption.bbox)
    IN IF ~best_idx.some
       THEN [layouts |-> layouts, assigned |-> assigned,
             pick |-> Pick(kind, caption_idx, layouts, None)]
       ELSE [layouts |->
                 [layouts EXCEPT ![best_idx.value] =
                     [@ EXCEPT !.captions = Append(@, CaptionInfo(caption, caption_idx))]],
             assigned |-> [assigned EXCEPT ![caption_idx] = TRUE],
             pick |-> Pick(kind, caption_idx, layouts, best_idx)]

AttachCaption(layouts, assigned, caption_idx, kind) ==
    LET caption == text_layouts[caption_idx]
        best_idx == best_caption_index(layouts, caption.bbox)
    IN IF ~best_idx.some
       THEN [layouts |-> layouts, assigned |-> assigned,
             pick |-> Pick(kind, caption_idx, layouts, None)]
       ELSE [layouts |->
                 [layouts EXCEPT ![best_idx.value] =
                     [@ EXCEPT !.bbox = bbox_union(@, caption.bbox),
                               !.captions = Append(@, CaptionInfo(caption, caption_idx))]],
             assigned |-> [assigned EXCEPT ![caption_idx] = TRUE],
             pick |-> Pick(kind, caption_idx, layouts, best_idx)]

assign_one_ignoring_assigned(layouts, assigned, caption_idx, kind) ==
    AttachCaption(layouts, assigned, caption_idx, kind)

\* One iteration of the loop of assign_captions_to_images (and of the
\* identical loop of assign_captions_to_objects) for caption_idx.
assign_one(layouts, assigned, caption_idx, kind) ==
    IF assigned[caption_idx]
    THEN [layouts |-> layouts, assigned |-> assigned, pick |-> None]
    ELSE AttachCaption(layouts, assigned, caption_idx, kind)

-----------------------------------------------------------------------------
(* extract_layouts from the built layouts on: the two caption passes *)

Box(x0, y0, x1, y1) == <<x0 * Milli, y0 * Milli, x1 * Milli, y1 * Milli>>

\* A box whose lower edge is lifted by `up` thousandths of a point.
Lifted(box, up) == <<box[1], box[2] + up, box[3], box[4]>>

TextLayout(bbox, combined, is_caption) ==
    [bbox |-> bbox, combined |-> combined, is_caption |-> is_caption]

\* Text layouts a page may yield: a body paragraph, two stacked captions
\* under the figures, and a caption in another column.
TextLayoutChoices ==
    {TextLayout(Box(50, 700, 150, 720), "Body", FALSE),
     TextLayout(Box(50, 380, 150, 395), "Fig. 1", TRUE),
     TextLayout(Box(50, 360, 150, 375), "Fig. 2", TRUE),
     TextLayout(Box(400, 380, 500, 395), "Table 1", TRUE)}

\* Image boxes.  Against the caption "Fig. 1" their (x_gap, y_gap) are
\* (20, 5), (10, 5.001), (0, 5.002) and (0, 105).
ImageBoxes ==
    {Box(0, 400, 30, 450),
     Lifted(Box(0, 400, 40, 450), 1),
     Lifted(Box(50, 400, 150, 450), 2),
     Box(50, 500, 150, 560)}

ObjectBoxes ==
    {Box(50, 300, 150, 350),
     Box(400, 300, 500, 350)}

SeqsUpTo(S, n) == UNION {[1..k -> S] : k \in 0..n}

\* The comparator of the final sort of build_text_layouts returns Less:
\* a has the larger y1, or the same y1 and the smaller x0.
cmp_layouts_less(a, b) ==
    \/ a.bbox[4] > b.bbox[4]
    \/ a.bbox[4] = b.bbox[4] /\ a.bbox[1] < b.bbox[1]

\* slice::sort_by is a stable sort: an element goes behind every element
\* that does not compare greater than it.
RECURSIVE InsertSorted(_, _)
InsertSorted(sorted, x) ==
    IF sorted = <<>> THEN <<x>>
    ELSE IF cmp_layouts_less(x, Head(sorted)) THEN <<x>> \o sorted
    ELSE <<Head(sorted)>> \o InsertSorted(Tail(sorted), x)

sort_layouts_as_grouped(layouts) == layouts

RECURSIVE sort_layouts(_)
sort_layouts(layouts) ==
    IF layouts = <<>> THEN <<>>
    ELSE InsertSorted(sort_layouts(SubSeq(layouts, 1, Len(layouts) - 1)),
                      layouts[Len(layouts)])

\* Descending y1, then ascending x0.
LayoutSorted(layouts) ==
    \A i \in 1..Len(layouts) : \A j \in 1..Len(layouts) :
        i < j => \/ layouts[i].bbox[4] > layouts[j].bbox[4]
                 \/ /\ layouts[i].bbox[4] = layouts[j].bbox[4]
                    /\ layouts[i].bbox[1] <= layouts[j].bbox[1]

InitLayout ==
    /\ InitNoPage
    /\ api = "layouts"
    /\ InitCommon
    /\ InitNoRegion
    /\ grouped_layouts \in SeqsUpTo(TextLayoutChoices, MaxTextLayouts)
    /\ text_layouts = <<>>
    /\ \E boxes \in SeqsUpTo(ImageBoxes, MaxImages) :
           image_layouts = [i \in 1..Len(boxes) |->
               [name |-> <<"Im", i>>, bbox |-> boxes[i], captions |-> <<>>]]
    /\ \E boxes \in SeqsUpTo(ObjectBoxes, MaxObjects) :
           object_layouts = [i \in 1..Len(boxes) |->
               [bbox |-> boxes[i], kinds |-> <<"rect">>, captions |-> <<>>]]
    /\ caption_assigned = <<>>
    /\ pass = "build"
    /\ cursor = 0
    /\ lastPick = None

LayoutFrame ==
    UNCHANGED <<api, stream, textVars, gfxVars, text_layouts, grouped_layouts,
                regionVars, pathVars, imageVars, pageVars>>

BuildTextLayouts_objects_first ==
    /\ api = "layouts"
    /\ pass = "build"
    /\ text_layouts' = sort_layouts(grouped_layouts)
    /\ caption_assigned' = [i \in 1..Len(grouped_layouts) |-> FALSE]
    /\ pass' = "objects"
    /\ cursor' = 1
    /\ UNCHANGED <<api, stream, textVars, gfxVars, grouped_layouts, image_layouts,
                   object_layouts, lastPick, regionVars, pathVars, imageVars, pageVars>>

\* The end of build_text_layouts and the set-up of the caption passes.
BuildTextLayouts ==
    /\ api = "layouts"
    /\ pass = "build"
    /\ text_layouts' = sort_layouts(grouped_layouts)
    /\ caption_assigned' = [i \in 1..Len(grouped_layouts) |-> FALSE]
    /\ pass' = "images"
    /\ cursor' = 1
    /\ UNCHANGED <<api, stream, textVars, gfxVars, grouped_layouts, image_layouts,
                   object_layouts, lastPick, regionVars, pathVars, imageVars, pageVars>>

AssignCaptionToImage ==
    /\ api = "layouts"
    /\ pass = "images"
    /\ cursor <= Len(caption_indices)
    /\ LET r == assign_one(image_layouts, caption_assigned,
                           caption_indices[cursor], "images")
       IN /\ image_layouts' = r.layouts
          /\ caption_assigned' = r.assigned
          /\ lastPick' = r.pick
    /\ cursor' = cursor + 1
    /\ UNCHANGED <<object_layouts, pass>>
    /\ LayoutFrame

BeginObjectPass ==
    /\ api = "layouts"
    /\ pass = "images"
    /\ cursor > Len(caption_indices)
    /\ pass' = "objects"
    /\ cursor' = 1
    /\ lastPick' = None
    /\ UNCHANGED <<image_layouts, object_layouts, caption_assigned>>
    /\ LayoutFrame

AssignCaptionToObject ==
    /\ api = "layouts"
    /\ pass = "objects"
    /\ cursor <= Len(caption_indices)
    /\ LET r == assign_one(object_layouts, caption_assigned,
                           caption_indices[cursor], "objects")
       IN /\ object_layouts' = r.layouts
          /\ caption_assigned' = r.assigned
          /\ lastPick' = r.pick
    /\ cursor' = cursor + 1
    /\ UNCHANGED <<image_layouts, pass>>
    /\ LayoutFrame

ReturnLayouts ==
    /\ api = "layouts"
    /\ pass = "objects"
    /\ cursor > Len(caption_indices)
    /\ pass' = "done"
    /\ lastPick' = None
    /\ UNCHANGED <<image_layouts, object_layouts, caption_assigned, cursor>>
    /\ LayoutFrame

NextLayout ==
    \/ BuildTextLayouts
    \/ AssignCaptionToImage
    \/ BeginObjectPass
    \/ AssignCaptionToObject
    \/ ReturnLayouts

SpecLayout == InitLayout /\ [][NextLayout]_vars

\* The same passes on a page with up to MaxCandidates images, at most one
\* object and the figure captions alone: what best_caption_index does with
\* more candidates than SpecLayout offers it.
InitCaptions ==
    /\ InitNoPage
    /\ api = "layouts"
    /\ InitCommon
    /\ InitNoRegion
    /\ grouped_layouts \in
           {<<TextLayout(Box(50, 380, 150, 395), "Fig. 1", TRUE)>>,
            <<TextLayout(Box(50, 380, 150, 395), "Fig. 1", TRUE),
              TextLayout(Box(50, 360, 150, 375), "Fig. 2", TRUE)>>}
    /\ text_layouts = <<>>
    /\ \E boxes \in SeqsUpTo(ImageBoxes, MaxCandidates) :
           image_layouts = [i \in 1..Len(boxes) |->
               [name |-> <<"Im", i>>, bbox |-> boxes[i], captions |-> <<>>]]
    /\ \E boxes \in SeqsUpTo({Box(50, 300, 150, 350)}, 1) :
           object_layouts = [i \in 1..Len(boxes) |->
               [bbox |-> boxes[i], kinds |-> <<"rect">>, captions |-> <<>>]]
    /\ caption_assigned = <<>>
    /\ pass = "build"
    /\ cursor = 0
    /\ lastPick = None

SpecCaptions == InitCaptions /\ [][NextLayout]_vars

-----------------------------------------------------------------------------
(* build_text_layouts: the clustering of runs, one run of the sorted list
   at a time.  `blocks` is the argument, `grouped_layouts` the local
   `groups`, `cursor` the number of runs taken, `text_layouts` the result. *)

bbox_from_block(block) == <<block.x0, block.y0, block.x1, block.y1>>

bbox_close(a, b, horizontal_margin, vertical_margin) ==
    /\ axis_gap(a[1], a[3], b[1], b[3]) <= horizontal_margin
    /\ axis_gap(a[2], a[4], b[2], b[4]) <= vertical_margin

\* The comparator of the first sort returns Less: a has the larger y1, or
\* the same y1 and the smaller x0.
cmp_blocks_less(a, b) ==
    \/ a.y1 > b.y1
    \/ a.y1 = b.y1 /\ a.x0 < b.x0

RECURSIVE InsertBlock(_, _)
InsertBlock(sorted, x) ==
    IF sorted = <<>> THEN <<x>>
    ELSE IF cmp_blocks_less(x, Head(sorted)) THEN <<x>> \o sorted
    ELSE <<Head(sorted)>> \o InsertBlock(Tail(sorted), x)

RECURSIVE sort_blocks(_)
sort_blocks(list) ==
    IF list = <<>> THEN <<>>
    ELSE InsertBlock(sort_blocks(SubSeq(list, 1, Len(list) - 1)),
                     list[Len(list)])

\* A TextLine {center_y, text}; `at` names the run it was made from (a
\* history field).
TextLine(block) ==
    [center_y |-> (block.y0 + block.y1) \div 2, text |-> block.text,
     at |-> block.at]

\* The margins of a run: 0.8 h + 4 and 1.5 h + 4 with h = max(|y1 - y0|, 1).
block_height(block) == Max2(Abs(block.y1 - block.y0), 1 * Unit)
horizontal_margin(block) == (block_height(block) * 8) \div 10 + 4 * Unit
vertical_margin(block) == (block_height(block) * 15) \div 10 + 4 * Unit

\* iter_mut().find(..): the index of the first group the closure accepts.
find_group_last(groups, block) ==
    LET close == {i \in 1..Len(groups) :
                     bbox_close(groups[i].bbox, bbox_from_block(block),
                                horizontal_margin(block), vertical_margin(block))}
    IN IF close = {} THEN None
       ELSE Some(CHOOSE i \in close : \A j \in close : j <= i)

find_group(groups, block) ==
    LET close == {i \in 1..Len(groups) :
                     bbox_close(groups[i].bbox, bbox_from_block(block),
                                horizontal_margin(block), vertical_margin(block))}
    IN IF close = {} THEN None
       ELSE Some(CHOOSE i \in close : \A j \in close : i <= j)

\* The body of the loop over the sorted runs.
group_block(groups, block) ==
    LET found == find_group(groups, block)
    IN IF found.some
       THEN [groups EXCEPT ![found.value] =
                [bbox |-> bbox_union(@.bbox, bbox_from_block(block)),
                 lines |-> Append(@.lines, TextLine(block))]]
       ELSE Append(groups, [bbox |-> bbox_from_block(block),
                            lines |-> <<TextLine(block)>>])

\* group.lines.sort_by(descending center_y), a stable sort.
RECURSIVE InsertLine(_, _)
InsertLine(sorted, x) ==
    IF sorted = <<>> THEN <<x>>
    ELSE IF x.center_y > Head(sorted).center_y THEN <<x>> \o sorted
    ELSE <<Head(sorted)>> \o InsertLine(Tail(sorted), x)

RECURSIVE sort_lines(_)
sort_lines(lines) ==
    IF lines = <<>> THEN <<>>
    ELSE InsertLine(sort_lines(SubSeq(lines, 1, Len(lines) - 1)),
                    lines[Len(lines)])

\* looks_like_caption on the texts of RunChoices: the text starts with
\* "fig.", "figure" or "table" (compared in lower case), or with one of the
\* two ideographs.
looks_like_caption(text) == text \in {"Fig. 1", "Table 1"}

\* lines.join("\n")
RECURSIVE join(_)
join(lines) ==
    IF lines = <<>> THEN ""
    ELSE IF Len(lines) = 1 THEN lines[1]
    ELSE lines[1] \o "\n" \o join(Tail(lines))

\* The closure that turns a group into a FinalTextLayout; `runs` keeps the
\* `at` of each line (a history field).
final_text_layout(group) ==
    LET sorted == sort_lines(group.lines)
        lines == [i \in 1..Len(sorted) |-> sorted[i].text]
    IN [bbox |-> group.bbox,
        lines |-> lines,
        combined |-> join(lines),
        is_caption |-> looks_like_caption(IF lines = <<>> THEN "" ELSE lines[1]),
        center_ys |-> [i \in 1..Len(sorted) |-> sorted[i].center_y],
        runs |-> [i \in 1..Len(sorted) |-> sorted[i].at]]

\* A run with its box in points; the baseline is not read by the
\* clustering.
RunBlock(text, x0, y0, x1, y1) ==
    [text |-> text, x0 |-> x0 * Unit, y0 |-> y0 * Unit, x1 |-> x1 * Unit,
     y1 |-> y1 * Unit, baseline_x |-> x0 * Unit, baseline_y |-> y0 * Unit,
     at |-> 0]

\* Runs of a page: a line, the line under it, a run far to the right on the
\* first line, a lower run between the two that is near both, a tall run 30
\* to the right of the first line and a small run at the same distance, and
\* a caption far below.
RunChoices ==
    {RunBlock("Body", 50, 700, 150, 712),
     RunBlock("more", 50, 686, 150, 698),
     RunBlock("Right", 300, 700, 400, 712),
     RunBlock("between", 160, 690, 290, 710),
     RunBlock("TALL", 180, 680, 220, 720),
     RunBlock("small", 180, 700, 220, 712),
     RunBlock("Fig. 1", 50, 380, 150, 395)}

InitTextLayouts ==
    /\ InitNoPage
    /\ InitNoRegion
    /\ api = "text_layouts"
    /\ stream = <<>>
    /\ state = DefaultTextState
    /\ \E runs \in SeqsUpTo(RunChoices, MaxRuns) :
           blocks = [i \in 1..Len(runs) |-> [runs[i] EXCEPT !.at = i]]
    /\ ctm = Identity
    /\ stack = <<>>
    /\ images = <<>>
    /\ inline_index = 0
    /\ result = "ok"
    /\ segments = <<>>
    /\ current_point = None
    /\ subpath_start = None
    /\ resources = Some(XObjects)
    /\ given_image = None
    /\ image_result = None
    /\ text_layouts = <<>>
    /\ image_layouts = <<>>
    /\ object_layouts = <<>>
    /\ caption_assigned = <<>>
    /\ pass = "group"
    /\ cursor = 0
    /\ lastPick = None
    /\ grouped_layouts = <<>>

\* What the clustering leaves alone.
BuildFrame ==
    UNCHANGED <<api, stream, textVars, gfxVars, image_layouts, caption_assigned,
                regionVars, pathVars, imageVars, pageVars>>

\* One iteration of `for block in sorted`.  lastPick keeps what the
\* iteration saw: the run, the groups' boxes before it, and the group the
\* run went to (history).
GroupBlock ==
    /\ api = "text_layouts"
    /\ pass = "group"
    /\ cursor < Len(blocks)
    /\ LET block == sort_blocks(blocks)[cursor + 1]
           groups == group_block(grouped_layouts, block)
       IN /\ grouped_layouts' = groups
          /\ lastPick' =
                 Some([block |-> block,
                       boxes |-> [i \in 1..Len(grouped_layouts) |->
                                     grouped_layouts[i].bbox],
                       joined |-> CHOOSE i \in 1..Len(groups) :
                                     \E j \in 1..Len(groups[i].lines) :
                                         groups[i].lines[j].at = block.at])
    /\ cursor' = cursor + 1
    /\ UNCHANGED <<text_layouts, object_layouts, pass>>
    /\ BuildFrame

\* The rest of build_text_layouts: the groups become layouts with their
\* lines sorted, and the layouts are sorted.
FinishTextLayouts ==
    /\ api = "text_layouts"
    /\ pass = "group"
    /\ cursor = Len(blocks)
    /\ text_layouts' =
           sort_layouts([i \in 1..Len(grouped_layouts) |->
                            final_text_layout(grouped_layouts[i])])
    /\ pass' = "done"
    /\ lastPick' = None
    /\ UNCHANGED <<grouped_layouts, object_layouts, cursor>>
    /\ BuildFrame

NextTextLayouts ==
    \/ GroupBlock
    \/ FinishTextLayouts

SpecTextLayouts == InitTextLayouts /\ [][NextTextLayouts]_vars

-----------------------------------------------------------------------------
(* extract_region_images.  Lengths are counted in points, pixels in pixels. *)

\* The page of the document: US Letter.
PageWidth == 612
PageHeight == 792

Finite(v) == [kind |-> "finite", value |-> v]

DpiChoices ==
    {Finite(144), Finite(72), Finite(1), Finite(0), Finite(-72),
     [kind |-> "nan"], [kind |-> "infinity"]}

RectChoices ==
    {<<0, 0, 612, 396>>,          \* the lower half of the page
     <<612, 396, 0, 0>>,          \* the same, corners swapped
     <<100, 100, 100, 200>>,      \* zero width
     <<700, 0, 800, 100>>,        \* right of the page
     <<-10, -10, 5, 5>>,          \* partly on the page
     <<300, 300, 301, 301>>}      \* one point square

Clamp(v, lo, hi) == IF v < lo THEN lo ELSE IF v > hi THEN hi ELSE v

\* floor(v * num / den) and ceil(v * num / den) for v, num >= 0, den > 0
\* (the scales are image_width / page_width and image_height / page_height).
ScaleFloor_rounding_up(v, num, den) == (v * num + den - 1) \div den
ScaleFloor(v, num, den) == (v * num) \div den
ScaleCeil(v, num, den) == (v * num + den - 1) \div den

\* The size of the bitmap Pdfium renders for the page at scale dpi / 72.
Rendered(d) == <<(PageWidth * d) \div 72, (PageHeight * d) \div 72>>

\* (x0.min(x1), y0.min(y1), x0.max(x1), y0.max(y1))
canonical(r) ==
    <<Min2(r[1], r[3]), Min2(r[2], r[4]), Max2(r[1], r[3]), Max2(r[2], r[4])>>

\* One iteration of the loop over the rectangles, for the rectangle at the
\* zero-based `index`: the record pushed, or the error returned.
region_of(index, r, d, size) ==
    LET image_width == size[1]
        image_height == size[2]
        c == canonical(r)
        clamped == <<Clamp(c[1], 0, PageWidth), Clamp(c[2], 0, PageHeight),
                     Clamp(c[3], 0, PageWidth), Clamp(c[4], 0, PageHeight)>>
        left_f == ScaleFloor(clamped[1], image_width, PageWidth)
        right_f == ScaleCeil(clamped[3], image_width, PageWidth)
        top_f == ScaleFloor(PageHeight - clamped[4], image_height, PageHeight)
        bottom_f == ScaleCeil(PageHeight - clamped[2], image_height, PageHeight)
        left_px == Clamp(left_f, 0, image_width)
        right_0 == Clamp(right_f, 0, image_width)
        top_px == Clamp(top_f, 0, image_height)
        bottom_0 == Clamp(bottom_f, 0, image_height)
        right_px == IF right_0 <= left_px
                    THEN Min2(right_0 + 1, image_width) ELSE right_0
        bottom_px == IF bottom_0 <= top_px
                     THEN Min2(bottom_0 + 1, image_height) ELSE bottom_0
    IN IF clamped[1] >= clamped[3] \/ clamped[2] >= clamped[4]
       THEN Err(<<"rectangle at index", index,
                  "does not overlap the page bounds">>)
       ELSE IF right_px <= left_px \/ bottom_px <= top_px
       THEN Err(<<"rectangle at index", index,
                  "produced an empty region after scaling">>)
       ELSE Ok([index |-> index, input_bbox |-> r, bbox |-> clamped,
                pixel_bounds |-> <<left_px, top_px, right_px, bottom_px>>,
                width |-> right_px - left_px, height |-> bottom_px - top_px,
                dpi |-> d])

InitRegion ==
    /\ InitNoPage
    /\ api = "region_images"
    /\ InitCommon
    /\ InitNoLayout
    /\ rectangles \in SeqsUpTo(RectChoices, MaxRects)
    /\ dpi \in DpiChoices
    /\ bitmap = None
    /\ regions = <<>>
    /\ outline = None
    /\ library_loads = 0

RegionFrame ==
    UNCHANGED <<api, stream, textVars, ctm, stack, images, inline_index,
                text_layouts, image_layouts, object_layouts, caption_assigned,
                lastPick, grouped_layouts, rectangles, dpi, outline,
                pathVars, imageVars, pageVars>>

\* The code of extract_region_images before its loop.  `library` is what
\* load_pdfium finds on this machine.
RegionStart(library) ==
    /\ api = "region_images"
    /\ pass = "idle"
    /\ RegionFrame
    /\ regions' = <<>>
    /\ library_loads' = IF /\ rectangles # <<>>
                           /\ dpi.kind = "finite" /\ dpi.value > 0
                           /\ library = "bound"
                        THEN library_loads + 1 ELSE library_loads
    /\ IF rectangles = <<>>
       THEN /\ pass' = "done"
            /\ UNCHANGED <<result, bitmap, cursor>>
       ELSE IF dpi.kind # "finite" \/ dpi.value <= 0
       THEN /\ pass' = "done"
            /\ result' = "dpi must be a positive finite value"
            /\ UNCHANGED <<bitmap, cursor>>
       ELSE IF library = "missing"
       THEN /\ pass' = "done"
            /\ result' = "Failed to load Pdfium library"
            /\ UNCHANGED <<bitmap, cursor>>
       ELSE IF Rendered(dpi.value)[1] = 0 \/ Rendered(dpi.value)[2] = 0
       THEN /\ pass' = "done"
            /\ result' = "rendered page has zero dimensions"
            /\ UNCHANGED <<bitmap, cursor>>
       ELSE /\ pass' = "rects"
            /\ bitmap' = Some(Rendered(dpi.value))
            /\ cursor' = 1
            /\ UNCHANGED result

RegionRect_keeping_earlier ==
    /\ api = "region_images"
    /\ pass = "rects"
    /\ cursor <= Len(rectangles)
    /\ RegionFrame
    /\ LET r == region_of(cursor - 1, rectangles[cursor], dpi.value, bitmap.value)
       IN IF r.ok
          THEN /\ regions' = Append(regions, r.value)
               /\ cursor' = cursor + 1
               /\ UNCHANGED <<result, pass, bitmap, library_loads>>
          ELSE /\ result' = r.msg
               /\ pass' = "done"
               /\ UNCHANGED <<cursor, bitmap, regions, library_loads>>

RegionRect ==
    /\ api = "region_images"
    /\ pass = "rects"
    /\ cursor <= Len(rectangles)
    /\ RegionFrame
    /\ LET r == region_of(cursor - 1, rectangles[cursor], dpi.value, bitmap.value)
       IN IF r.ok
          THEN /\ regions' = Append(regions, r.value)
               /\ cursor' = cursor + 1
               /\ UNCHANGED <<result, pass, bitmap, library_loads>>
          ELSE /\ regions' = <<>>
               /\ result' = r.msg
               /\ pass' = "done"
               /\ UNCHANGED <<cursor, bitmap, library_loads>>

RegionReturn ==
    /\ api = "region_images"
    /\ pass = "rects"
    /\ cursor > Len(rectangles)
    /\ RegionFrame
    /\ pass' = "done"
    /\ UNCHANGED <<result, bitmap, cursor, regions, library_loads>>

\* The process calls extract_region_images once more, with other arguments:
\* the locals of the finished call are gone, and nothing of the library
\* binding is kept from one call to the next (load_pdfium has no cache).
\* The arguments of a later call of the same process: no rectangle, one
\* that renders, one of zero width; a valid and an invalid dpi.
LaterRectangles ==
    {<<>>, <<<<0, 0, 612, 396>>>>, <<<<100, 100, 100, 200>>>>}
LaterDpis == {Finite(144), Finite(0)}

RegionCallAgain ==
    /\ api = "region_images"
    /\ pass = "done"
    /\ library_loads < MaxLoads
    /\ rectangles' \in LaterRectangles
    /\ dpi' \in LaterDpis
    /\ pass' = "idle"
    /\ result' = "ok"
    /\ bitmap' = None
    /\ regions' = <<>>
    /\ cursor' = 0
    /\ UNCHANGED <<api, stream, textVars, ctm, stack, images, inline_index,
                   text_layouts, image_layouts, object_layouts,
                   caption_assigned, lastPick, grouped_layouts, outline,
                   library_loads, pathVars, imageVars, pageVars>>

NextRegion ==
    \/ \E library \in {"bound", "missing"} : RegionStart(library)
    \/ RegionRect
    \/ RegionReturn
    \/ RegionCallAgain

SpecRegion == InitRegion /\ [][NextRegion]_vars

-----------------------------------------------------------------------------
(* The pixel box of extract_region_images in f32 arithmetic.  An f32 is
   kept as its sign, its 24-bit significand m and its exponent e, the
   number being m * 2^e with 2^23 <= m < 2^24, or m = 0 for zero.  Every
   operation rounds its exact result to the nearest such number, ties to
   the even significand, as the hardware does.  The numbers of this
   development stay far from the subnormal and the overflow range. *)

RECURSIVE Pow2(_)
Pow2(n) == IF n = 0 THEN 1 ELSE 2 * Pow2(n - 1)

RECURSIVE BitLen(_)
BitLen(n) == IF n = 0 THEN 0 ELSE 1 + BitLen(n \div 2)

f32_zero == [neg |-> FALSE, m |-> 0, e |-> 0]

\* The f32 nearest to (n + s) * 2^e, where n >= 0 is an integer and s is 0
\* or, when `sticky`, some fraction strictly between 0 and 1 (n then has
\* at least 26 bits).
f32_round(n, e, sticky) ==
    IF n = 0 THEN f32_zero
    ELSE IF BitLen(n) <= 24
    THEN [neg |-> FALSE, m |-> n * Pow2(24 - BitLen(n)),
          e |-> e - (24 - BitLen(n))]
    ELSE LET shift == BitLen(n) - 24
             q == n \div Pow2(shift)
             r == n % Pow2(shift)
             half == Pow2(shift - 1)
             up == r > half \/ (r = half /\ (sticky \/ q % 2 = 1))
             m == IF up THEN q + 1 ELSE q
         IN IF m = Pow2(24)
            THEN [neg |-> FALSE, m |-> Pow2(23), e |-> e + shift + 1]
            ELSE [neg |-> FALSE, m |-> m, e |-> e + shift]

\* `n as f32` of a u32, and the f32 literal n * 2^e.
f32_from(n, e) == f32_round(n, e, FALSE)
f32_neg(a) == [a EXCEPT !.neg = ~a.neg]

\* a < b
f32_lt(a, b) ==
    LET below(x, y) == IF x.m = 0 THEN y.m # 0
                       ELSE IF y.m = 0 THEN FALSE
                       ELSE x.e < y.e \/ (x.e = y.e /\ x.m < y.m)
    IN IF a.neg # b.neg THEN a.neg
       ELSE IF a.neg THEN below(b, a) ELSE below(a, b)

f32_min(a, b) == IF f32_lt(b, a) THEN b ELSE a
f32_max(a, b) == IF f32_lt(a, b) THEN b ELSE a
f32_clamp(v, lo, hi) == IF f32_lt(v, lo) THEN lo ELSE IF f32_lt(hi, v) THEN hi ELSE v

\* a - b for a >= b >= 0: b is aligned to a with three more bits, what is
\* shifted out of it is kept as the sticky fraction.
f32_sub(a, b) ==
    IF b.m = 0 THEN a
    ELSE LET d == a.e - b.e
             kept == IF d <= 3 THEN b.m * Pow2(3 - d)
                     ELSE IF d - 3 >= 24 THEN 0
                     ELSE b.m \div Pow2(d - 3)
             sticky == IF d <= 3 THEN FALSE
                       ELSE IF d - 3 >= 24 THEN TRUE
                       ELSE b.m % Pow2(d - 3) # 0
         IN f32_round(a.m * 8 - kept - (IF sticky THEN 1 ELSE 0),
                      a.e - 3, sticky)

\* a * b for a, b >= 0: the 48-bit product of the significands, computed
\* in halves of 12 bits, then rounded.
f32_mul(a, b) ==
    IF a.m = 0 \/ b.m = 0 THEN f32_zero
    ELSE LET a1 == a.m \div 4096
             a0 == a.m % 4096
             b1 == b.m \div 4096
             b0 == b.m % 4096
             mid == a1 * b0 + a0 * b1
             low24 == (mid % 4096) * 4096 + a0 * b0
             low == low24 % Pow2(24)
             hi == a1 * b1 + mid \div 4096 + low24 \div Pow2(24)
         IN f32_round(hi * 64 + low \div Pow2(18), a.e + b.e + 18,
                      low % Pow2(18) # 0)

\* Long division: `bits` more bits of rem / den after the quotient acc.
RECURSIVE long_div(_, _, _, _)
long_div(rem, den, bits, acc) ==
    IF bits = 0 THEN [quotient |-> acc, rem |-> rem]
    ELSE IF 2 * rem >= den
    THEN long_div(2 * rem - den, den, bits - 1, 2 * acc + 1)
    ELSE long_div(2 * rem, den, bits - 1, 2 * acc)

\* a / b for a, b > 0
f32_div(a, b) ==
    LET d == long_div(a.m % b.m, b.m, 27, a.m \div b.m)
    IN f32_round(d.quotient, a.e - b.e - 27, d.rem # 0)

\* a.floor() and a.ceil() for a >= 0, as integers; a number of 2^30 or
\* more is given as 2^30 (the clamp to the image size follows).
f32_floor(a) ==
    IF a.m = 0 THEN 0
    ELSE IF a.e > 6 THEN Pow2(30)
    ELSE IF a.e >= 0 THEN a.m * Pow2(a.e)
    ELSE IF 0 - a.e >= 24 THEN 0
    ELSE a.m \div Pow2(0 - a.e)

f32_ceil(a) ==
    IF a.m = 0 THEN 0
    ELSE IF a.e > 6 THEN Pow2(30)
    ELSE IF a.e >= 0 THEN a.m * Pow2(a.e)
    ELSE IF 0 - a.e >= 24 THEN 1
    ELSE a.m \div Pow2(0 - a.e)
             + (IF a.m % Pow2(0 - a.e) # 0 THEN 1 ELSE 0)

\* One iteration of the loop over the rectangles as the f32 code computes
\* it, for a rectangle of four f32 and the size of the rendered bitmap.
region_of_f32(index, r, d, size) ==
    LET image_width == size[1]
        image_height == size[2]
        page_width == f32_from(PageWidth, 0)
        page_height == f32_from(PageHeight, 0)
        scale_x == f32_div(f32_from(image_width, 0), page_width)
        scale_y == f32_div(f32_from(image_height, 0), page_height)
        c == <<f32_min(r[1], r[3]), f32_min(r[2], r[4]),
               f32_max(r[1], r[3]), f32_max(r[2], r[4])>>
        clamped == <<f32_clamp(c[1], f32_zero, page_width),
                     f32_clamp(c[2], f32_zero, page_height),
                     f32_clamp(c[3], f32_zero, page_width),
                     f32_clamp(c[4], f32_zero, page_height)>>
        left_f == f32_floor(f32_mul(clamped[1], scale_x))
        right_f == f32_ceil(f32_mul(clamped[3], scale_x))
        top_f == f32_floor(f32_mul(f32_sub(page_height, clamped[4]), scale_y))
        bottom_f == f32_ceil(f32_mul(f32_sub(page_height, clamped[2]), scale_y))
        left_px == Clamp(left_f, 0, image_width)
        right_0 == Clamp(right_f, 0, image_width)
        top_px == Clamp(top_f, 0, image_height)
        bottom_0 == Clamp(bottom_f, 0, image_height)
        right_px == IF right_0 <= left_px
                    THEN Min2(right_0 + 1, image_width) ELSE right_0
        bottom_px == IF bottom_0 <= top_px
                     THEN Min2(bottom_0 + 1, image_height) ELSE bottom_0
    IN IF ~f32_lt(clamped[1], clamped[3]) \/ ~f32_lt(clamped[2], clamped[4])
       THEN Err(<<"rectangle at index", index,
                  "does not overlap the page bounds">>)
       ELSE IF right_px <= left_px \/ bottom_px <= top_px
       THEN Err(<<"rectangle at index", index,
                  "produced an empty region after scaling">>)
       ELSE Ok([index |-> index, input_bbox |-> r, bbox |-> clamped,
                pixel_bounds |-> <<left_px, top_px, right_px, bottom_px>>,
                width |-> right_px - left_px, height |-> bottom_px - top_px,
                dpi |-> d])

\* The coordinates a caller passes: on the page, on its edges, one f32
\* step inside its edges (612 - 2^-14, 792 - 2^-14), 2^-17 pt, and off
\* the page on either side.
XChoices ==
    {f32_zero, f32_from(1, -17), f32_from(306, 0), f32_from(10027007, -14),
     f32_from(612, 0), f32_from(1000, 0), f32_neg(f32_from(10, 0))}
YChoices ==
    {f32_zero, f32_from(1, -17), f32_from(396, 0), f32_from(12976127, -14),
     f32_from(792, 0), f32_from(1000, 0)}
PixelDpis == {72, 144, 100, 300, 1}

\* extract_region_images on the point of running its loop over one
\* rectangle: the page is rendered.
InitPixelBox ==
    /\ InitNoPage
    /\ api = "pixel_box"
    /\ InitCommon
    /\ InitNoLayout
    /\ \E x0 \in XChoices, y0 \in YChoices, x1 \in XChoices, y1 \in YChoices :
           rectangles = <<<<x0, y0, x1, y1>>>>
    /\ \E d \in PixelDpis :
           /\ dpi = Finite(d)
           /\ bitmap = Some(Rendered(d))
    /\ regions = <<>>
    /\ outline = None
    /\ library_loads = 1

PixelBoxRect ==
    /\ api = "pixel_box"
    /\ pass = "idle"
    /\ RegionFrame
    /\ LET r == region_of_f32(0, rectangles[1], dpi.value, bitmap.value)
       IN IF r.ok
          THEN /\ regions' = <<r.value>>
               /\ UNCHANGED result
          ELSE /\ regions' = <<>>
               /\ result' = r.msg
    /\ pass' = "done"
    /\ UNCHANGED <<cursor, bitmap, library_loads>>

NextPixelBox == PixelBoxRect

SpecPixelBox == InitPixelBox /\ [][NextPixelBox]_vars

-----------------------------------------------------------------------------
(* make_rectangle_outline *)

OutlineCoords == {-5, 0, 7}

InitOutline ==
    /\ InitNoPage
    /\ api = "rectangle_outline"
    /\ InitCommon
    /\ InitNoLayout
    /\ InitNoRegion

MakeRectangleOutline(x0, y0, x1, y1) ==
    /\ api = "rectangle_outline"
    /\ pass = "idle"
    /\ pass' = "done"
    /\ outline' = Some([bbox |-> canonical(<<x0, y0, x1, y1>>),
                        given |-> <<x0, y0, x1, y1>>])
    /\ UNCHANGED <<api, stream, textVars, gfxVars, text_layouts, image_layouts,
                   object_layouts, caption_assigned, cursor, lastPick,
                   grouped_layouts, rectangles, dpi, bitmap, regions,
                   library_loads, pathVars, imageVars, pageVars>>

NextOutline ==
    \E x0 \in OutlineCoords, y0 \in OutlineCoords,
       x1 \in OutlineCoords, y1 \in OutlineCoords :
        MakeRectangleOutline(x0, y0, x1, y1)

-----------------------------------------------------------------------------
(* collect_paths: one action per operator of the match.  Lengths in points. *)

MaxPathOps == 3

Point(x, y) == [x |-> x, y |-> y]

PathPoints == {Point(0, 0), Point(10, 5)}

\* Rectangles of the re operator; the second has a negative width.
PathRects ==
    {[x |-> 0, y |-> 0, width |-> 10, height |-> 5],
     [x |-> 10, y |-> 5, width |-> -10, height |-> 5]}

rect_to_points(rect) ==
    LET x2 == rect.x + rect.width
        y2 == rect.y + rect.height
    IN <<<<rect.x, rect.y>>, <<x2, rect.y>>, <<x2, y2>>, <<rect.x, y2>>,
         <<rect.x, rect.y>>>>

\* A path segment (kind, points); `at` is the stream position of the
\* operator that emitted it (a history field).
Segment(kind, points, at) == [kind |-> kind, points |-> points, at |-> at]

InitPaths ==
    /\ InitNoPage
    /\ api = "paths"
    /\ InitCommon
    /\ InitNoLayout
    /\ InitNoRegion

PathStep(op, arg) ==
    /\ api = "paths"
    /\ pos < MaxPathOps
    /\ stream' = Append(stream, Entry(op, arg,
                      [current_point |-> current_point,
                       subpath_start |-> subpath_start]))
    /\ UNCHANGED <<api, textVars, gfxVars, layoutVars, regionVars, imageVars, pageVars>>

MoveTo(p) ==
    /\ PathStep("MoveTo", p)
    /\ current_point' = Some(p)
    /\ subpath_start' = Some(p)
    /\ UNCHANGED segments

LineTo_from_its_end(p) ==
    /\ PathStep("LineTo", p)
    /\ segments' = IF current_point.some
                   THEN Append(segments,
                            Segment("line",
                                    <<<<p.x, p.y>>, <<p.x, p.y>>>>,
                                    pos + 1))
                   ELSE segments
    /\ current_point' = Some(p)
    /\ UNCHANGED subpath_start

LineTo(p) ==
    /\ PathStep("LineTo", p)
    /\ segments' = IF current_point.some
                   THEN Append(segments,
                            Segment("line",
                                    <<<<current_point.value.x,
                                        current_point.value.y>>, <<p.x, p.y>>>>,
                                    pos + 1))
                   ELSE segments
    /\ current_point' = Some(p)
    /\ UNCHANGED subpath_start

CurveTo(c1, c2, p) ==
    /\ PathStep("CurveTo", <<c1, c2, p>>)
    /\ segments' = IF current_point.some
                   THEN Append(segments,
                            Segment("curve",
                                    <<<<current_point.value.x,
                                        current_point.value.y>>,
                                      <<c1.x, c1.y>>, <<c2.x, c2.y>>,
                                      <<p.x, p.y>>>>,
                                    pos + 1))
                   ELSE segments
    /\ current_point' = Some(p)
    /\ UNCHANGED subpath_start

Rect(rect) ==
    /\ PathStep("Rect", rect)
    /\ LET points == rect_to_points(rect)
       IN /\ segments' = Append(segments, Segment("rect", points, pos + 1))
          /\ current_point' = Some(Point(points[1][1], points[1][2]))
          /\ subpath_start' = Some(Point(points[1][1], points[1][2]))

Close ==
    /\ PathStep("Close", <<>>)
    /\ IF current_point.some /\ subpath_start.some
       THEN /\ segments' = Append(segments,
                    Segment("line",
                            <<<<current_point.value.x, current_point.value.y>>,
                              <<subpath_start.value.x, subpath_start.value.y>>>>,
                            pos + 1))
            /\ current_point' = subpath_start
            /\ UNCHANGED subpath_start
       ELSE UNCHANGED pathVars

\* Any operator the match does not name (painting, state, text, ...).
OtherPathOp ==
    /\ PathStep("Other", <<>>)
    /\ UNCHANGED pathVars

NextPaths ==
    \/ \E p \in PathPoints : MoveTo(p)
    \/ \E p \in PathPoints : LineTo(p)
    \/ \E p \in PathPoints : CurveTo(Point(2, 9), Point(8, 9), p)
    \/ \E rect \in PathRects : Rect(rect)
    \/ Close
    \/ OtherPathOp

SpecPaths == InitPaths /\ [][NextPaths]_vars

-----------------------------------------------------------------------------
(* build_object_layouts: one path segment at a time.  `segments` is the
   argument, `object_layouts` the local `layouts`, `cursor` the number of
   segments taken.  Lengths are in points. *)

OBJECT_MERGE_MARGIN == 4

points_bbox(points) ==
    IF points = <<>> THEN None
    ELSE Some(<<MinOf([i \in 1..Len(points) |-> points[i][1]]),
                MinOf([i \in 1..Len(points) |-> points[i][2]]),
                MaxOf([i \in 1..Len(points) |-> points[i][1]]),
                MaxOf([i \in 1..Len(points) |-> points[i][2]])>>)

\* layouts.iter_mut().find(..): the index of the first layout within the
\* merge margin of the box.
find_layout_last(layouts, bbox) ==
    LET close == {i \in 1..Len(layouts) :
                     bbox_close(layouts[i].bbox, bbox,
                                OBJECT_MERGE_MARGIN, OBJECT_MERGE_MARGIN)}
    IN IF close = {} THEN None
       ELSE Some(CHOOSE i \in close : \A j \in close : j <= i)

find_layout(layouts, bbox) ==
    LET close == {i \in 1..Len(layouts) :
                     bbox_close(layouts[i].bbox, bbox,
                                OBJECT_MERGE_MARGIN, OBJECT_MERGE_MARGIN)}
    IN IF close = {} THEN None
       ELSE Some(CHOOSE i \in close : \A j \in close : i <= j)

\* The body of the loop over the segments; `members` keeps the `at` of the
\* segments merged into a layout (a history field).
merge_segment(layouts, segment) ==
    LET bbox == points_bbox(segment.points)
        found == find_layout(layouts, bbox.value)
    IN IF ~bbox.some THEN layouts
       ELSE IF found.some
       THEN [layouts EXCEPT ![found.value] =
                [@ EXCEPT !.bbox = bbox_union(@, bbox.value),
                          !.kinds = IF \E k \in 1..Len(@) : @[k] = segment.kind
                                    THEN @ ELSE Append(@, segment.kind),
                          !.members = Append(@, segment.at)]]
       ELSE Append(layouts, [bbox |-> bbox.value,
                             kinds |-> <<segment.kind>>,
                             captions |-> <<>>,
                             members |-> <<segment.at>>])

\* Segments as collect_paths emits them: a rectangle, a line and a curve
\* each within 4 of the one before, a line far away and a rectangle next to
\* it, and a long line that ends within 4 of both clusters.
SegmentChoices ==
    {Segment("rect", rect_to_points([x |-> 0, y |-> 0, width |-> 10, height |-> 5]), 0),
     Segment("line", <<<<12, 0>>, <<20, 0>>>>, 0),
     Segment("curve", <<<<22, 0>>, <<24, 9>>, <<26, 9>>, <<28, 0>>>>, 0),
     Segment("line", <<<<100, 100>>, <<110, 100>>>>, 0),
     Segment("rect", rect_to_points([x |-> 96, y |-> 90, width |-> 4, height |-> 8]), 0),
     Segment("line", <<<<13, 3>>, <<97, 97>>>>, 0)}

InitObjectLayouts ==
    /\ InitNoPage
    /\ InitNoRegion
    /\ api = "object_layouts"
    /\ stream = <<>>
    /\ state = DefaultTextState
    /\ blocks = <<>>
    /\ ctm = Identity
    /\ stack = <<>>
    /\ images = <<>>
    /\ inline_index = 0
    /\ result = "ok"
    /\ \E chosen \in SeqsUpTo(SegmentChoices, MaxSegments) :
           segments = [i \in 1..Len(chosen) |-> [chosen[i] EXCEPT !.at = i]]
    /\ current_point = None
    /\ subpath_start = None
    /\ resources = Some(XObjects)
    /\ given_image = None
    /\ image_result = None
    /\ text_layouts = <<>>
    /\ image_layouts = <<>>
    /\ object_layouts = <<>>
    /\ caption_assigned = <<>>
    /\ pass = "merge"
    /\ cursor = 0
    /\ lastPick = None
    /\ grouped_layouts = <<>>

\* One iteration of `for (kind, points) in segments`.  lastPick keeps what
\* the iteration saw: the segment, the layouts before it, and the layout
\* the segment went to (history).
MergeSegment ==
    /\ api = "object_layouts"
    /\ pass = "merge"
    /\ cursor < Len(segments)
    /\ LET segment == segments[cursor + 1]
           layouts == merge_segment(object_layouts, segment)
       IN /\ object_layouts' = layouts
          /\ lastPick' =
                 Some([segment |-> segment,
                       before |-> object_layouts,
                       joined |-> {i \in 1..Len(layouts) :
                                      \E j \in 1..Len(layouts[i].members) :
                                          layouts[i].members[j] = segment.at}])
    /\ cursor' = cursor + 1
    /\ UNCHANGED <<text_layouts, grouped_layouts, pass>>
    /\ BuildFrame

ReturnObjectLayouts ==
    /\ api = "object_layouts"
    /\ pass = "merge"
    /\ cursor = Len(segments)
    /\ pass' = "done"
    /\ lastPick' = None
    /\ UNCHANGED <<text_layouts, grouped_layouts, object_layouts, cursor>>
    /\ BuildFrame

NextObjectLayouts ==
    \/ MergeSegment
    \/ ReturnObjectLayouts

SpecObjectLayouts == InitObjectLayouts /\ [][NextObjectLayouts]_vars

-----------------------------------------------------------------------------
(* extract_image on its own: one call on one image *)

InitImage ==
    /\ InitNoPage
    /\ api = "extract_image"
    /\ InitCommon
    /\ InitNoLayout
    /\ InitNoRegion

ExtractImage ==
    /\ api = "extract_image"
    /\ image_result = None
    /\ image_result' = Some(extract_image(given_image.value))
    /\ UNCHANGED <<api, stream, textVars, gfxVars, layoutVars, regionVars,
                   pathVars, resources, given_image, pageVars>>

NextImage == ExtractImage

SpecImage == InitImage /\ [][NextImage]_vars

-----------------------------------------------------------------------------
(* The entry points of the page operations: each runs its collectors over
   the operators of the page's content stream.  A call reads page.contents
   whole; the history `stream` of the operator-by-operator machines stays
   empty here, and `at` counts positions in page.contents. *)

\* An operator of a content stream, before it is interpreted.
Op(op, arg) == [op |-> op, arg |-> arg]

\* One iteration of the loop of collect_text_blocks on the locals
\* ts = [state, blocks], for the operator at the one-based position `at`.
text_op_transforming(ts, o, at) ==
    CASE o.op = "BeginText" -> [ts EXCEPT !.state = begin_text(ts.state)]
      [] o.op = "EndText" -> ts
      [] o.op = "Transform" ->
             [ts EXCEPT !.state = set_text_matrix(ts.state, o.arg)]
      [] o.op = "SetTextMatrix" ->
             [ts EXCEPT !.state = set_text_matrix(ts.state, o.arg)]
      [] o.op = "MoveTextPosition" ->
             [ts EXCEPT !.state = translate_line(ts.state, o.arg[1], o.arg[2])]
      [] o.op = "TextNewline" -> [ts EXCEPT !.state = newline(ts.state)]
      [] o.op = "TextFont" ->
             [ts EXCEPT !.state = set_font(ts.state, o.arg[1], o.arg[2])]
      [] o.op = "CharSpacing" -> [ts EXCEPT !.state.char_spacing = o.arg]
      [] o.op = "WordSpacing" -> [ts EXCEPT !.state.word_spacing = o.arg]
      [] o.op = "TextScaling" -> [ts EXCEPT !.state.horizontal_scale = o.arg]
      [] o.op = "Leading" -> [ts EXCEPT !.state.leading = o.arg]
      [] o.op = "TextRise" -> [ts EXCEPT !.state.text_rise = o.arg]
      [] o.op = "TextDraw" -> handle_text_draw(ts, o.arg, at)
      [] o.op = "TextDrawAdjusted" -> handle_text_adjusted(ts, o.arg, at)
      [] OTHER -> ts

text_op(ts, o, at) ==
    CASE o.op = "BeginText" -> [ts EXCEPT !.state = begin_text(ts.state)]
      [] o.op = "EndText" -> ts
      [] o.op = "SetTextMatrix" ->
             [ts EXCEPT !.state = set_text_matrix(ts.state, o.arg)]
      [] o.op = "MoveTextPosition" ->
             [ts EXCEPT !.state = translate_line(ts.state, o.arg[1], o.arg[2])]
      [] o.op = "TextNewline" -> [ts EXCEPT !.state = newline(ts.state)]
      [] o.op = "TextFont" ->
             [ts EXCEPT !.state = set_font(ts.state, o.arg[1], o.arg[2])]
      [] o.op = "CharSpacing" -> [ts EXCEPT !.state.char_spacing = o.arg]
      [] o.op = "WordSpacing" -> [ts EXCEPT !.state.word_spacing = o.arg]
      [] o.op = "TextScaling" -> [ts EXCEPT !.state.horizontal_scale = o.arg]
      [] o.op = "Leading" -> [ts EXCEPT !.state.leading = o.arg]
      [] o.op = "TextRise" -> [ts EXCEPT !.state.text_rise = o.arg]
      [] o.op = "TextDraw" -> handle_text_draw(ts, o.arg, at)
      [] o.op = "TextDrawAdjusted" -> handle_text_adjusted(ts, o.arg, at)
      [] OTHER -> ts

\* The loop of collect_text_blocks from position k on.
RECURSIVE run_text(_, _, _)
run_text(ts, ops, k) ==
    IF k > Len(ops) THEN ts ELSE run_text(text_op(ts, ops[k], k), ops, k + 1)

\* One iteration of the loop of collect_positioned_images on the locals
\* gs = [ctm, stack, images, inline_index, result]; res is the page's
\* resources.  Once an Err was returned no further operator is read.
gfx_fail(gs, msg) == [gs EXCEPT !.result = msg, !.images = <<>>]

gfx_place(gs, name, image, at) ==
    LET image_data == extract_image(image)
    IN IF ~image_data.ok THEN gfx_fail(gs, image_data.msg)
       ELSE [gs EXCEPT !.images =
                 Append(gs.images,
                        PositionedImage(name, unit_square_bounds(gs.ctm),
                                        image_data.value, at))]

gfx_op(gs, o, at, res) ==
    IF gs.result # "ok" THEN gs
    ELSE CASE o.op = "Save" -> [gs EXCEPT !.stack = Append(gs.stack, gs.ctm)]
           [] o.op = "Restore" ->
                  [gs EXCEPT !.ctm = pop(gs.stack).snapshot,
                             !.stack = pop(gs.stack).rest]
           [] o.op = "Transform" ->
                  [gs EXCEPT !.ctm = concat_matrix(gs.ctm, o.arg)]
           [] o.op = "XObject" ->
                  IF ~res.some \/ o.arg \notin DOMAIN res.value THEN gs
                  ELSE IF res.value[o.arg].kind = "Dangling"
                  THEN gfx_fail(gs, "reference does not resolve")
                  ELSE IF res.value[o.arg].kind # "Image" THEN gs
                  ELSE gfx_place(gs, o.arg, res.value[o.arg].image, at)
           [] o.op = "InlineImage" ->
                  LET counted == [gs EXCEPT !.inline_index = gs.inline_index + 1]
                      placed == gfx_place(counted,
                                          inline_name(gs.inline_index + 1),
                                          o.arg, at)
                  IN IF placed.result # "ok" THEN gfx_fail(gs, placed.result)
                     ELSE placed
           [] OTHER -> gs

RECURSIVE run_gfx(_, _, _, _)
run_gfx(gs, ops, k, res) ==
    IF k > Len(ops) THEN gs
    ELSE run_gfx(gfx_op(gs, ops[k], k, res), ops, k + 1, res)

\* One iteration of the loop of collect_paths on the locals
\* ps = [segments, current_point, subpath_start].
path_op(ps, o, at) ==
    LET from == <<ps.current_point.value.x, ps.current_point.value.y>>
    IN CASE o.op = "MoveTo" ->
                [ps EXCEPT !.current_point = Some(o.arg),
                           !.subpath_start = Some(o.arg)]
         [] o.op = "LineTo" ->
                [ps EXCEPT !.segments =
                               IF ps.current_point.some
                               THEN Append(@, Segment("line",
                                                <<from, <<o.arg.x, o.arg.y>>>>, at))
                               ELSE @,
                           !.current_point = Some(o.arg)]
         [] o.op = "CurveTo" ->
                [ps EXCEPT !.segments =
                               IF ps.current_point.some
                               THEN Append(@, Segment("curve",
                                                <<from,
                                                  <<o.arg[1].x, o.arg[1].y>>,
                                                  <<o.arg[2].x, o.arg[2].y>>,
                                                  <<o.arg[3].x, o.arg[3].y>>>>, at))
                               ELSE @,
                           !.current_point = Some(o.arg[3])]
         [] o.op = "Rect" ->
                LET points == rect_to_points(o.arg)
                    first == Some(Point(points[1][1], points[1][2]))
                IN [ps EXCEPT !.segments = Append(@, Segment("rect", points, at)),
                              !.current_point = first,
                              !.subpath_start = first]
         [] o.op = "Close" ->
                IF ps.current_point.some /\ ps.subpath_start.some
                THEN [ps EXCEPT !.segments =
                                    Append(@, Segment("line",
                                                 <<from,
                                                   <<ps.subpath_start.value.x,
                                                     ps.subpath_start.value.y>>>>,
                                                 at)),
                                !.current_point = ps.subpath_start]
                ELSE ps
         [] OTHER -> ps

RECURSIVE run_paths(_, _, _)
run_paths(ps, ops, k) ==
    IF k > Len(ops) THEN ps ELSE run_paths(path_op(ps, ops[k], k), ops, k + 1)

\* build_image_layouts: one layout per image, in order.
build_image_layouts(imgs) ==
    [i \in 1..Len(imgs) |->
        [type |-> "image_layout", name |-> imgs[i].name,
         bbox |-> <<imgs[i].x0, imgs[i].y0, imgs[i].x1, imgs[i].y1>>]]

\* build_text_layouts and build_object_layouts merge neighbouring blocks and
\* segments into groups; here only the number of groups is kept, which the
\* merging decides: none for no input, else between one and one per input.
GroupedLayouts(type, inputs) ==
    {[i \in 1..n |-> [type |-> type, group |-> i]] :
        n \in (IF inputs = <<>> THEN {0} ELSE 1..Len(inputs))}

\* The dict built for each record of a list, carrying its "type".
to_pydicts(type, records) ==
    [i \in 1..Len(records) |-> [type |-> type, record |-> records[i]]]

\* The operators a content stream of the page machine is made of: text,
\* graphics-state, image and path operators mixed.
PageOps ==
    {Op("Save", <<>>), Op("Restore", <<>>),
     Op("Transform", Mat(100, 0, 0, 50, 20, 30)),
     Op("TextFont", <<"F1", 12 * Unit>>), Op("TextDraw", <<72, 105>>),
     Op("Rect", [x |-> 0, y |-> 0, width |-> 10, height |-> 5]),
     Op("LineTo", Point(10, 5)),
     Op("InlineImage", GrayImage), Op("InlineImage", ShortGrayImage)}

\* The pages a call may be made on: with or without a content stream,
\* and with fonts that all resolve or with one that does not.
Pages ==
    {[page_index |-> 3, contents |-> contents, fonts_resolve |-> fonts_resolve] :
        contents \in {None} \cup {Some(ops) : ops \in SeqsUpTo(PageOps, MaxPageOps)},
        fonts_resolve \in BOOLEAN}

Operations == {"text_runs", "images", "paths", "layouts", "page_content"}

\* The pages and operations of a later call of the same process.
LaterPages ==
    {[page_index |-> 0, contents |-> contents, fonts_resolve |-> TRUE] :
        contents \in {None,
                      Some(<<Op("TextDraw", <<72, 105>>)>>),
                      Some(<<Op("InlineImage", GrayImage), Op("LineTo", Point(10, 5))>>)}}

InitPage ==
    /\ api = "page"
    /\ InitCommon
    /\ InitNoLayout
    /\ InitNoRegion
    /\ page \in Pages
    /\ operation \in Operations
    /\ returned = None
    /\ calls = 0

\* What a page operation leaves alone.
PageFrame ==
    UNCHANGED <<api, stream, layoutVars, regionVars, imageVars,
                page, operation, calls>>

TextLocals == [state |-> state, blocks |-> blocks]
GfxLocals ==
    [ctm |-> ctm, stack |-> stack, images |-> images,
     inline_index |-> inline_index, result |-> result]
PathLocals ==
    [segments |-> segments, current_point |-> current_point,
     subpath_start |-> subpath_start]

SetText(ts) == state' = ts.state /\ blocks' = ts.blocks
SetGfx(gs) ==
    /\ ctm' = gs.ctm
    /\ stack' = gs.stack
    /\ images' = gs.images
    /\ inline_index' = gs.inline_index
    /\ result' = gs.result
SetPaths(ps) ==
    /\ segments' = ps.segments
    /\ current_point' = ps.current_point
    /\ subpath_start' = ps.subpath_start

Called(name) ==
    /\ api = "page"
    /\ operation = name
    /\ returned = None
    /\ PageFrame

ExtractTextWithCoords_ignoring_fonts ==
    /\ Called("text_runs")
    /\ UNCHANGED <<gfxVars, pathVars>>
    /\ IF ~page.contents.some
       THEN returned' = Some(Ok(<<>>)) /\ UNCHANGED textVars
       ELSE LET ts == run_text(TextLocals, page.contents.value, 1)
            IN /\ SetText(ts)
               /\ returned' = Some(Ok(to_pydicts("text", ts.blocks)))

ExtractTextWithCoords ==
    /\ Called("text_runs")
    /\ UNCHANGED <<gfxVars, pathVars>>
    /\ IF ~page.fonts_resolve
       THEN returned' = Some(Err("font")) /\ UNCHANGED textVars
       ELSE IF ~page.contents.some
       THEN returned' = Some(Ok(<<>>)) /\ UNCHANGED textVars
       ELSE LET ts == run_text(TextLocals, page.contents.value, 1)
            IN /\ SetText(ts)
               /\ returned' = Some(Ok(to_pydicts("text", ts.blocks)))

ExtractImages ==
    /\ Called("images")
    /\ UNCHANGED <<textVars, pathVars>>
    /\ IF ~page.contents.some
       THEN returned' = Some(Ok(<<>>)) /\ UNCHANGED gfxVars
       ELSE LET gs == run_gfx(GfxLocals, page.contents.value, 1, resources)
            IN /\ SetGfx(gs)
               /\ returned' = Some(IF gs.result # "ok" THEN Err(gs.result)
                                   ELSE Ok(to_pydicts("image", gs.images)))

ExtractPaths ==
    /\ Called("paths")
    /\ UNCHANGED <<textVars, gfxVars>>
    /\ IF ~page.contents.some
       THEN returned' = Some(Ok(<<>>)) /\ UNCHANGED pathVars
       ELSE LET ps == run_paths(PathLocals, page.contents.value, 1)
            IN /\ SetPaths(ps)
               /\ returned' = Some(Ok(ps.segments))

LayoutsRecord(ts, gs, ps, layouts) == layouts

PageContentRecord_objects_first(ts, gs, ps, layouts) ==
    LET text_entries == to_pydicts("text", ts.blocks)
        image_entries == to_pydicts("image", gs.images)
        object_entries == to_pydicts("path", ps.segments)
    IN [page_index |-> page.page_index,
        text |-> text_entries,
        images |-> image_entries,
        objects |-> object_entries,
        layouts |-> layouts,
        items |-> text_entries \o object_entries \o image_entries]

PageContentRecord(ts, gs, ps, layouts) ==
    LET text_entries == to_pydicts("text", ts.blocks)
        image_entries == to_pydicts("image", gs.images)
        object_entries == to_pydicts("path", ps.segments)
    IN [page_index |-> page.page_index,
        text |-> text_entries,
        images |-> image_entries,
        objects |-> object_entries,
        layouts |-> layouts,
        items |-> text_entries \o image_entries \o object_entries]

\* The record extract_page_content returns for a page without contents.
EmptyPageContent ==
    [page_index |-> page.page_index, text |-> <<>>, images |-> <<>>,
     objects |-> <<>>, layouts |-> <<>>, items |-> <<>>]

\* The part extract_layouts and extract_page_content share: the three
\* collectors in the order text, images, paths, and the layout lists.
\* extract_page_content (whole_page) returns the record of all lists,
\* extract_layouts the layouts alone.
RunCollectors(whole_page) ==
    IF ~page.fonts_resolve
    THEN returned' = Some(Err("font")) /\ UNCHANGED <<textVars, gfxVars, pathVars>>
    ELSE IF ~page.contents.some
    THEN /\ returned' = Some(Ok(IF whole_page THEN EmptyPageContent ELSE <<>>))
         /\ UNCHANGED <<textVars, gfxVars, pathVars>>
    ELSE LET ops == page.contents.value
             ts == run_text(TextLocals, ops, 1)
             gs == run_gfx(GfxLocals, ops, 1, resources)
             ps == run_paths(PathLocals, ops, 1)
         IN /\ SetText(ts)
            /\ SetGfx(gs)
            /\ IF gs.result # "ok"
               THEN returned' = Some(Err(gs.result)) /\ UNCHANGED pathVars
               ELSE /\ SetPaths(ps)
                    /\ \E text_groups \in GroupedLayouts("text_layout", ts.blocks),
                          object_groups \in GroupedLayouts("object_layout", ps.segments) :
                           LET layouts == text_groups
                                              \o build_image_layouts(gs.images)
                                              \o object_groups
                           IN returned' =
                                  Some(Ok(IF whole_page
                                          THEN PageContentRecord(ts, gs, ps, layouts)
                                          ELSE LayoutsRecord(ts, gs, ps, layouts)))

ExtractLayouts ==
    /\ Called("layouts")
    /\ RunCollectors(FALSE)

ExtractPageContent ==
    /\ Called("page_content")
    /\ RunCollectors(TRUE)

\* The process makes a further call: the locals of the call that returned
\* are gone and the new call's collectors declare theirs afresh
\* (TextState::default() and an empty Vec; the default CTM, an empty stack,
\* no images, inline_index 0; no segments, no current point).
NextCall_keeping_locals ==
    /\ api = "page"
    /\ returned # None
    /\ calls < MaxCalls
    /\ calls' = calls + 1
    /\ page' \in LaterPages
    /\ operation' \in Operations
    /\ returned' = None
    /\ UNCHANGED <<api, stream, textVars, gfxVars, pathVars, layoutVars,
                   regionVars, imageVars>>

NextCall ==
    /\ api = "page"
    /\ returned # None
    /\ calls < MaxCalls
    /\ calls' = calls + 1
    /\ page' \in LaterPages
    /\ operation' \in Operations
    /\ returned' = None
    /\ SetText([state |-> DefaultTextState, blocks |-> <<>>])
    /\ SetGfx([ctm |-> Identity, stack |-> <<>>, images |-> <<>>,
               inline_index |-> 0, result |-> "ok"])
    /\ SetPaths([segments |-> <<>>, current_point |-> None,
                 subpath_start |-> None])
    /\ UNCHANGED <<api, stream, layoutVars, regionVars, imageVars>>

NextPage ==
    \/ ExtractTextWithCoords
    \/ ExtractImages
    \/ ExtractPaths
    \/ ExtractLayouts
    \/ ExtractPageContent
    \/ NextCall

SpecPage == InitPage /\ [][NextPage]_vars

-----------------------------------------------------------------------------
(* The operator-by-operator machines together *)

Init ==
    \/ InitText
    \/ InitGfx
    \/ InitLayout
    \/ InitRegion
    \/ InitOutline
    \/ InitPaths
    \/ InitImage

Next ==
    \/ NextText
    \/ NextGfx
    \/ NextLayout
    \/ NextRegion
    \/ NextOutline
    \/ NextPaths
    \/ NextImage

Spec == Init /\ [][Next]_vars

-----------------------------------------------------------------------------
(* Properties of the text and graphics state machines *)

\* C1: after any operator sequence ending in BeginText both the text matrix
\* and the text-line matrix are the identity, whatever preceded it; a run
\* drawn by a TextDraw that directly follows a BeginText (text rise 0, as in
\* BeginText; SetTextMatrix(M); BeginText; TextDraw(X)) has baseline (0, 0).
C1_BeginTextResetsMatrices ==
    api = "text_runs" =>
        /\ lastOp.op = "BeginText" =>
               /\ state.text_matrix = Identity
               /\ state.text_line_matrix = Identity
        /\ \A i \in 1..Len(blocks) :
               LET at == blocks[i].at
               IN (/\ at >= 2
                   /\ stream[at].op = "TextDraw"
                   /\ stream[at - 1].op = "BeginText"
                   /\ stream[at].before.text_rise = 0)
                  => (blocks[i].baseline_x = 0 /\ blocks[i].baseline_y = 0)

\* C1 witness: SetTextMatrix(M) with M not the identity, then BeginText,
\* then a TextDraw that emitted a run at (0, 0).
C1_Witness ==
    /\ api = "text_runs"
    /\ Len(stream) = 3
    /\ stream[1].op = "SetTextMatrix"
    /\ stream[2].op = "BeginText"
    /\ stream[2].before.text_matrix # Identity
    /\ stream[3].op = "TextDraw"
    /\ Len(blocks) = 1
    /\ blocks[1].baseline_x = 0
    /\ blocks[1].baseline_y = 0

\* C2 (as claimed): MoveTextPosition(tx, ty) sets the text-line matrix to
\* translate(tx, ty) . text_line_matrix (a, b, c, d unchanged,
\* e' = tx.a + ty.c + e, f' = tx.b + ty.d + f) and the text matrix to the
\* new text-line matrix.
C2_MoveTextPositionPdfConvention ==
    (api = "text_runs" /\ lastOp.op = "MoveTextPosition") =>
        LET old == lastOp.before.text_line_matrix
            tx == lastOp.arg[1]
            ty == lastOp.arg[2]
        IN /\ state.text_line_matrix =
                  [old EXCEPT !.e = tx * old.a + ty * old.c + old.e,
                              !.f = tx * old.b + ty * old.d + old.f]
           /\ state.text_line_matrix = PdfProduct(Translate(tx, ty), old)
           /\ state.text_matrix = state.text_line_matrix

\* C3 (as claimed): Transform M sets the CTM to the product M . CTM_old in
\* all six coefficients.
C3_TransformPdfConvention ==
    (api = "images" /\ lastOp.op = "Transform") =>
        ctm = PdfProduct(lastOp.arg, lastOp.before.ctm)

\* The Save that a Restore at the end of stream s pops, found by bracket
\* matching from the end (i runs down from Len(s) - 1, depth counts the
\* Restores still to be matched); 0 when no Save is open.
RECURSIVE MatchingSave(_, _, _)
MatchingSave(s, i, depth) ==
    IF i = 0 THEN 0
    ELSE IF s[i].op = "Restore" THEN MatchingSave(s, i - 1, depth + 1)
    ELSE IF s[i].op = "Save"
         THEN (IF depth = 0 THEN i ELSE MatchingSave(s, i - 1, depth - 1))
    ELSE MatchingSave(s, i - 1, depth)

\* C4: Restore sets the CTM to the value it had at the most recent Save not
\* yet restored (LIFO), whatever Transform operators came in between; a
\* Restore with no open Save (empty stack) does not fail, leaves the CTM
\* equal to the identity and the stack empty.
C4_RestoreIsLifo ==
    (api = "images" /\ lastOp.op = "Restore") =>
        LET k == MatchingSave(stream, Len(stream) - 1, 0)
        IN /\ result = "ok"
           /\ (k = 0) <=> (lastOp.before.stack = <<>>)
           /\ k = 0 => (ctm = Identity /\ stack = <<>>)
           /\ k > 0 => /\ ctm = stream[k].before.ctm
                       /\ stack = stream[k].before.stack

\* C4 witness: a CTM that is not the identity is saved, changed inside the
\* bracket and restored.
C4_Witness ==
    /\ api = "images"
    /\ Len(stream) = 4
    /\ stream[1].op = "Transform"
    /\ stream[2].op = "Save"
    /\ stream[3].op = "Transform"
    /\ stream[4].op = "Restore"
    /\ stream[4].before.ctm # stream[2].before.ctm
    /\ ctm = stream[2].before.ctm
    /\ ctm # Identity

\* The font in force and the decoding of a string under text state st, as
\* handle_text_draw obtains them.
FontOf(st) == LookupFont(st.current_font)

Decoded(st, bytes) ==
    IF FontOf(st).some THEN decode(FontOf(st).value, bytes)
    ELSE fallback_decode(bytes)

\* The blocks emitted by the operator at stream position at.
BlocksAt(at) == {i \in 1..Len(blocks) : blocks[i].at = at}

\* C5 (as claimed): every TextDraw whose string decodes to at least one
\* glyph code emits exactly one run and then advances the text matrix by
\* the displacement of those codes, also when the ToUnicode map yields the
\* empty string for them.
C5_EveryCodedDrawEmitsOneRun ==
    (api = "text_runs" /\ lastOp.op = "TextDraw") =>
        LET st == lastOp.before
            codes == Decoded(st, lastOp.arg).codes
            displacement == compute_text_displacement(FontOf(st), codes, st)
        IN codes # <<>> =>
               /\ Cardinality(BlocksAt(pos)) = 1
               /\ state = IF displacement # 0
                          THEN translate_text(st, displacement) ELSE st

\* width(c) of the displacement formula: the font's width for the code, and
\* 1000 when the current font is unknown or has no widths table.
RefWidth(st, code) ==
    IF FontOf(st).some /\ FontOf(st).value.widths.some
    THEN glyph_width(FontOf(st).value, code)
    ELSE 1000

RECURSIVE WidthSum(_, _)
WidthSum(st, codes) ==
    IF codes = <<>> THEN 0
    ELSE RefWidth(st, Head(codes)) + WidthSum(st, Tail(codes))

CountOf(codes, c) == Cardinality({i \in 1..Len(codes) : codes[i] = c})

\* (sum of width(c)/1000 . font_size + char_spacing + word_spacing.[c = 32])
\* . horizontal_scale / 100, with the sum taken term by term in closed form.
RefDisplacement(st, codes) ==
    ((WidthSum(st, codes) * (st.font_size \div 1000)
      + Len(codes) * st.char_spacing
      + CountOf(codes, 32) * st.word_spacing) * st.horizontal_scale) \div 100

\* C6: for every code sequence and text state the horizontal displacement is
\* (sum over the codes of width/1000 . font_size + char_spacing +
\* word_spacing for code 0x20) . horizontal_scale/100, with width 1000 for
\* every code when the font is unknown or has no widths table; the text
\* matrix advances by that amount; widths 500 and 278 at size 10, spacing 0,
\* scale 100 give 7.78.
C6_DisplacementFormula ==
    (api = "text_runs" /\ lastOp.op = "TextDraw") =>
        LET st == lastOp.before
            decoded == Decoded(st, lastOp.arg)
            expected == RefDisplacement(st, decoded.codes)
        IN /\ compute_text_displacement(FontOf(st), decoded.codes, st) = expected
           /\ state = IF decoded.text = <<>> \/ expected = 0 THEN st
                      ELSE translate_text(st, expected)
           /\ (/\ st.current_font = Some("F1")
               /\ st.font_size = 10 * Unit
               /\ st.char_spacing = 0
               /\ st.horizontal_scale = 100
               /\ lastOp.arg = <<72, 105>>)
              => expected = (778 * Unit) \div 100

\* C6 witness: "Hi" (widths 500 and 278) drawn in F1 at size 10 from the
\* default state advanced the text matrix by 7.78.
C6_Witness ==
    /\ api = "text_runs"
    /\ Len(stream) = 2
    /\ stream[1].op = "TextFont"
    /\ stream[1].arg = <<"F1", 10 * Unit>>
    /\ stream[2].op = "TextDraw"
    /\ stream[2].arg = <<72, 105>>
    /\ Len(blocks) = 1
    /\ state.text_matrix.e = (778 * Unit) \div 100

\* (-a/1000) . font_size . (horizontal_scale/100)
RefAdjustment(st, amount) ==
    ((0 - amount) * (st.font_size \div 1000) * st.horizontal_scale) \div 100

\* The horizontal shift one item of a TextDrawAdjusted array causes under
\* text state st (font, size, spacing and scale do not change inside an
\* array), and the number of runs it emits.
ItemShift(st, item) ==
    IF item.kind = "Spacing" THEN RefAdjustment(st, item.amount)
    ELSE IF Decoded(st, item.text).text = <<>> THEN 0
    ELSE RefDisplacement(st, Decoded(st, item.text).codes)

ItemRuns(st, item) ==
    IF item.kind = "Text" /\ Decoded(st, item.text).text # <<>> THEN 1 ELSE 0

RECURSIVE ArrayShift(_, _)
ArrayShift(st, array) ==
    IF array = <<>> THEN 0
    ELSE ItemShift(st, Head(array)) + ArrayShift(st, Tail(array))

RECURSIVE ArrayRuns(_, _)
ArrayRuns(st, array) ==
    IF array = <<>> THEN 0
    ELSE ItemRuns(st, Head(array)) + ArrayRuns(st, Tail(array))

KerningExample == <<TextItem(<<65>>), SpacingItem(100), TextItem(<<86>>)>>

\* C7: in TextDrawAdjusted a Spacing(a) item emits no run and moves the text
\* matrix horizontally by (-a/1000) . font_size . (horizontal_scale/100):
\* the array emits one run per non-empty Text item only, and shifts the
\* translation e of the text matrix by the sum of the Text displacements and
\* the Spacing adjustments, leaving everything else of the text state as it
\* was; [Text(A), Spacing(100), Text(V)] at size 12, scale 100, widths 500
\* and identity matrices emits two runs with baselines (0, 0) and (4.8, 0)
\* and leaves the text matrix displaced by 10.8.
C7_SpacingTranslatesWithoutRun ==
    (api = "text_runs" /\ lastOp.op = "TextDrawAdjusted") =>
        LET st == lastOp.before
            array == lastOp.arg
        IN /\ Cardinality(BlocksAt(pos)) = ArrayRuns(st, array)
           /\ state = [st EXCEPT !.text_matrix.e = @ + ArrayShift(st, array)]
           /\ (Len(array) = 1 /\ array[1].kind = "Spacing") =>
                  /\ BlocksAt(pos) = {}
                  /\ state.text_matrix.e =
                         st.text_matrix.e + RefAdjustment(st, array[1].amount)
           /\ (/\ array = KerningExample
               /\ st = [DefaultTextState EXCEPT !.current_font = Some("F1")])
              => /\ BlocksAt(pos) = {Len(blocks) - 1, Len(blocks)}
                 /\ LET first == blocks[Len(blocks) - 1]
                        second == blocks[Len(blocks)]
                    IN /\ <<first.baseline_x, first.baseline_y>> = <<0, 0>>
                       /\ <<second.baseline_x, second.baseline_y>> =
                              <<(48 * Unit) \div 10, 0>>
                 /\ state.text_matrix = Translate((108 * Unit) \div 10, 0)

\* C7 witness: the kerned pair of the example has been drawn in F1 at size
\* 12 from identity matrices, and the second run starts at 4.8.
C7_Witness ==
    /\ api = "text_runs"
    /\ Len(stream) = 2
    /\ stream[1].op = "TextFont"
    /\ stream[2].op = "TextDrawAdjusted"
    /\ stream[2].arg = KerningExample
    /\ stream[2].before = [DefaultTextState EXCEPT !.current_font = Some("F1")]
    /\ Len(blocks) = 2
    /\ blocks[2].baseline_x = (48 * Unit) \div 10
    /\ state.text_matrix.e = (108 * Unit) \div 10

-----------------------------------------------------------------------------
(* Properties of the emitted boxes and of caption attachment *)

Ordered(bbox) == bbox[1] <= bbox[3] /\ bbox[2] <= bbox[4]

OrderedRecord(r) == r.x0 <= r.x1 /\ r.y0 <= r.y1

Occurrences(layouts, idx) ==
    Cardinality({<<i, k>> \in (1..Len(layouts)) \X (1..MaxTextLayouts + 1) :
                     /\ k <= Len(layouts[i].captions)
                     /\ layouts[i].captions[k].idx = idx})

\* C9: caption assignment is injective: during and after the image pass and
\* the object pass every caption text layout occurs in the caption list of
\* at most one layout among all image and object layouts, and at most once
\* there; a layout is marked assigned exactly when it occurs.
C9_CaptionAssignmentInjective ==
    api = "layouts" =>
        \A idx \in 1..Len(text_layouts) :
            LET n == Occurrences(image_layouts, idx)
                     + Occurrences(object_layouts, idx)
            IN /\ n <= 1
               /\ ~text_layouts[idx].is_caption => n = 0
               /\ caption_assigned[idx] <=> (n = 1)

\* C9 witness: both passes are over, and a caption attached to an image also
\* lies within the margins of an object layout, which did not get it.
C9_Witness ==
    /\ api = "layouts"
    /\ pass = "done"
    /\ \E idx \in 1..Len(text_layouts) :
           /\ Occurrences(image_layouts, idx) = 1
           /\ \E o \in 1..Len(object_layouts) :
                  /\ object_layouts[o].captions = <<>>
                  /\ IsCandidate(bbox_gaps(object_layouts[o].bbox,
                                           text_layouts[idx].bbox))

\* The layouts of the last caption pass step that were candidates, and those
\* tied with layout i within the epsilon in y_gap.
PickCandidates ==
    {i \in 1..Len(lastPick.value.gaps) : IsCandidate(lastPick.value.gaps[i])}

TiedInY(i, j) ==
    Abs(lastPick.value.gaps[i][2] - lastPick.value.gaps[j][2]) <= CAPTION_EPSILON

\* C10 (as claimed): when two candidates have y_gaps within 1e-3 of each
\* other, the one with the larger x_gap is chosen: no candidate tied with
\* the chosen layout has a larger x_gap than the chosen layout.
C10_TiePrefersLargerXGap ==
    (api = "layouts" /\ lastPick.some /\ lastPick.value.chosen.some) =>
        LET c == lastPick.value.chosen.value
        IN \A j \in PickCandidates :
               TiedInY(c, j) =>
                   lastPick.value.gaps[c][1] >= lastPick.value.gaps[j][1]

\* C10 (amended): a later-scanned candidate tied with the running best in
\* y_gap replaces it only when its x_gap is smaller by more than 1e-3.  So
\* no candidate scanned after the chosen one and tied with it has an x_gap
\* smaller than the chosen one's by more than 1e-3, and of exactly two
\* candidates, tied in y_gap, the later one is chosen exactly when its x_gap
\* is smaller than the earlier one's by more than 1e-3.
C10_TiePrefersSmallerXGap ==
    (api = "layouts" /\ lastPick.some /\ lastPick.value.chosen.some) =>
        LET c == lastPick.value.chosen.value
            gaps == lastPick.value.gaps
        IN /\ c \in PickCandidates
           /\ \A j \in PickCandidates :
                  (j > c /\ TiedInY(c, j)) =>
                      gaps[j][1] >= gaps[c][1] - CAPTION_EPSILON
           /\ \A i \in PickCandidates : \A j \in PickCandidates :
                  (i < j /\ PickCandidates = {i, j} /\ TiedInY(i, j)) =>
                      c = IF gaps[j][1] < gaps[i][1] - CAPTION_EPSILON
                          THEN j ELSE i

\* C10 witness: exactly two candidates, tied in y_gap, the later one nearer
\* in x by more than the epsilon, and the later one chosen.
C10_Witness ==
    /\ api = "layouts"
    /\ lastPick.some
    /\ lastPick.value.chosen.some
    /\ \E i \in PickCandidates : \E j \in PickCandidates :
           /\ i < j
           /\ PickCandidates = {i, j}
           /\ TiedInY(i, j)
           /\ lastPick.value.gaps[j][1] <
                  lastPick.value.gaps[i][1] - CAPTION_EPSILON
           /\ lastPick.value.chosen.value = j

-----------------------------------------------------------------------------
(* Properties of the output order, the decoders and the region rasteriser *)

\* The number of caption layouts among the first n text layouts.
CaptionsUpTo(n) == Cardinality({i \in 1..n : text_layouts[i].is_caption})

\* C11: in the output of text layouts, for any two layouts A before B either
\* A.y1 > B.y1, or A.y1 = B.y1 and A.x0 <= B.x0 (the sort keeps the layouts
\* it was given); the caption indices are taken in this order, so that the
\* captions are processed top-down, then left to right.
C11_TextLayoutsSorted ==
    (api = "layouts" /\ pass # "build") =>
        /\ LayoutSorted(text_layouts)
        /\ Len(text_layouts) = Len(grouped_layouts)
        /\ \A l \in TextLayoutChoices :
               Cardinality({i \in 1..Len(text_layouts) : text_layouts[i] = l})
               = Cardinality({i \in 1..Len(grouped_layouts) :
                                  grouped_layouts[i] = l})
        /\ \A i \in 1..Len(caption_indices) :
               /\ text_layouts[caption_indices[i]].is_caption
               /\ CaptionsUpTo(caption_indices[i]) = i
        /\ lastPick.some =>
               /\ lastPick.value.caption = caption_indices[cursor - 1]
               /\ CaptionsUpTo(lastPick.value.caption) = cursor - 1

\* C11 witness: two captions were grouped lower one first, the sort has put
\* the upper one first, and the lower one is being processed second.
C11_Witness ==
    /\ api = "layouts"
    /\ Len(grouped_layouts) = 2
    /\ grouped_layouts[1].bbox[4] < grouped_layouts[2].bbox[4]
    /\ text_layouts = <<grouped_layouts[2], grouped_layouts[1]>>
    /\ lastPick.some
    /\ lastPick.value.caption = 2
    /\ cursor = 3

\* The positions `at` of a list of outputs never decrease along the list.
InStreamOrder(outputs) ==
    \A i \in 1..Len(outputs) : \A j \in 1..Len(outputs) :
        i < j => outputs[i].at <= outputs[j].at

\* The decoded texts of the non-empty Text items of an array, in array order.
RECURSIVE ArrayTexts(_, _)
ArrayTexts(st, array) ==
    IF array = <<>> THEN <<>>
    ELSE (IF ItemRuns(st, Head(array)) = 1
          THEN <<Decoded(st, Head(array).text).text>> ELSE <<>>)
         \o ArrayTexts(st, Tail(array))

\* The texts of the runs emitted by the operator at position p, in output
\* order.
RunTextsAt(p) ==
    LET mine == BlocksAt(p)
        lo == CHOOSE i \in mine : \A j \in mine : i <= j
    IN IF mine = {} THEN <<>>
       ELSE [k \in 1..Cardinality(mine) |-> blocks[lo + k - 1].text]

\* C12: text runs, positioned images and path segments are each listed in
\* operator-stream order: an output later in the list comes from the same
\* or a later operator of the stream, every output comes from an operator
\* that emits that kind of output, and the runs of one TextDrawAdjusted
\* follow the order of its array.
C12_OutputsInStreamOrder ==
    /\ InStreamOrder(blocks)
    /\ InStreamOrder(images)
    /\ InStreamOrder(segments)
    /\ \A i \in 1..Len(blocks) :
           /\ blocks[i].at \in 1..pos
           /\ stream[blocks[i].at].op \in {"TextDraw", "TextDrawAdjusted"}
    /\ \A i \in 1..Len(images) :
           /\ images[i].at \in 1..pos
           /\ stream[images[i].at].op \in {"XObject", "InlineImage"}
           /\ \A j \in 1..Len(images) : i < j => images[i].at < images[j].at
    /\ \A i \in 1..Len(segments) :
           /\ segments[i].at \in 1..pos
           /\ stream[segments[i].at].op \in {"LineTo", "CurveTo", "Rect", "Close"}
           /\ \A j \in 1..Len(segments) : i < j => segments[i].at < segments[j].at
    /\ api = "text_runs" =>
           \A p \in 1..pos :
               stream[p].op = "TextDrawAdjusted" =>
                   RunTextsAt(p) = ArrayTexts(stream[p].before, stream[p].arg)

\* C12 witness: a TextDraw run is followed by the two runs of a later
\* TextDrawAdjusted, "A" before "V" as in its array.
C12_Witness ==
    /\ api = "text_runs"
    /\ Len(blocks) = 3
    /\ stream[blocks[1].at].op = "TextDraw"
    /\ blocks[1].at < blocks[2].at
    /\ blocks[2].at = blocks[3].at
    /\ stream[blocks[3].at].arg = KerningExample
    /\ blocks[2].text = <<65>>
    /\ blocks[3].text = <<86>>

\* C13: the string decoder returns exactly one code per input byte (the
\* byte's value) for a simple font and for an unknown font, and exactly
\* floor(n/2) big-endian two-byte codes for a CID font on n bytes, dropping
\* a trailing odd byte; it yields a result for every byte string.
C13_DecoderCodeCount ==
    (api = "text_runs" /\ lastOp.op = "TextDraw") =>
        LET st == lastOp.before
            bytes == lastOp.arg
            decoded == Decoded(st, bytes)
            is_cid == FontOf(st).some /\ FontOf(st).value.is_cid
        IN /\ DOMAIN decoded = {"text", "codes"}
           /\ ~is_cid => decoded.codes = bytes
           /\ is_cid =>
                  /\ Len(decoded.codes) = Len(bytes) \div 2
                  /\ \A i \in 1..Len(decoded.codes) :
                         decoded.codes[i] = 256 * bytes[2 * i - 1] + bytes[2 * i]
           /\ decoded.text # <<>> =>
                  /\ Cardinality(BlocksAt(pos)) = 1
                  /\ blocks[Len(blocks)].text = decoded.text
                  /\ is_cid /\ FontOf(st).value.to_unicode = None =>
                         Len(blocks[Len(blocks)].text) = Len(bytes) \div 2

\* C13 witness: three bytes drawn in the CID font F3 gave a run of one
\* character, the code 0x0041 of the first two bytes.
C13_Witness ==
    /\ api = "text_runs"
    /\ lastOp.op = "TextDraw"
    /\ lastOp.before.current_font = Some("F3")
    /\ lastOp.arg = <<0, 65, 66>>
    /\ BlocksAt(pos) = {Len(blocks)}
    /\ blocks[Len(blocks)].text = <<65>>


\* The least and the greatest element of a non-empty finite set of integers.
Least(S) == CHOOSE x \in S : \A y \in S : x <= y
Greatest(S) == CHOOSE x \in S : \A y \in S : y <= x

\* The x and the y coordinates of the images of the unit square's corners
\* (0,0), (1,0), (0,1), (1,1) under the matrix m, written out.
CornerXs(m) == {m.e, m.a + m.e, m.c + m.e, m.a + m.c + m.e}
CornerYs(m) == {m.f, m.b + m.f, m.d + m.f, m.b + m.d + m.f}

\* The operators of the spec's example, as stream entries 1..3, on a page
\* whose XObject table defines the image Im0.
PlacementExample ==
    /\ resources.some
    /\ Len(stream) >= 3
    /\ stream[1].op = "Save"
    /\ stream[2].op = "Transform" /\ stream[2].arg = Mat(100, 0, 0, 50, 20, 30)
    /\ stream[3].op = "XObject" /\ stream[3].arg = "Im0"

\* C14: the bounding box of a positioned image is the componentwise minimum
\* and maximum of the unit square's four corners mapped by the CTM in force
\* when the image operator is encountered; after
\* Save; Transform([100 0 0 50 20 30]); XObject(Im0) the image Im0 has the
\* box (20, 30, 120, 80).
C14_ImageBoxIsUnitSquareUnderCtm ==
    api = "images" =>
        /\ \A i \in 1..Len(images) :
               LET m == stream[images[i].at].before.ctm
               IN /\ images[i].x0 = Least(CornerXs(m))
                  /\ images[i].y0 = Least(CornerYs(m))
                  /\ images[i].x1 = Greatest(CornerXs(m))
                  /\ images[i].y1 = Greatest(CornerYs(m))
        /\ (PlacementExample /\ result = "ok") =>
               /\ Len(images) >= 1
               /\ images[1].name = "Im0"
               /\ <<images[1].x0, images[1].y0, images[1].x1, images[1].y1>>
                      = <<20, 30, 120, 80>>

\* C14 witness: the example stream ran to its Restore and placed Im0.
C14_Witness ==
    /\ api = "images"
    /\ PlacementExample
    /\ lastOp.op = "Restore" /\ pos = 4
    /\ Len(images) = 1


\* The number of InlineImage operators among the stream entries 1..n.
InlineCount(n) == Cardinality({p \in 1..n : stream[p].op = "InlineImage"})

\* C15: the k-th InlineImage operator of a pass (k from 1) yields an image
\* named inline_k; XObject images, ignored operators and save/restore do
\* not move the counter, which starts at 0 in every pass.
C15_InlineImagesNumberedFromOne ==
    api = "images" =>
        /\ pos = 0 => inline_index = 0
        /\ result = "ok" => inline_index = InlineCount(pos)
        /\ \A i \in 1..Len(images) :
               LET p == images[i].at
               IN IF stream[p].op = "InlineImage"
                  THEN images[i].name = <<"inline", InlineCount(p)>>
                  ELSE images[i].name = stream[p].arg

\* C15 witness: the second InlineImage operator of a pass came after an
\* XObject operator and a Save, and its image was named inline_2.
C15_Witness ==
    /\ api = "images"
    /\ \E i \in 1..Len(images) :
           LET p == images[i].at
           IN /\ stream[p].op = "InlineImage"
              /\ images[i].name = <<"inline", 2>>
              /\ \E q \in 1..(p - 1) : stream[q].op = "XObject"
              /\ \E q \in 1..(p - 1) : stream[q].op = "Save"

\* The XObject operator at stream entry p names nothing the pass can place:
\* the page has no resources, the name is not in the XObject table, or the
\* XObject it resolves to is a form.
NamesNoImage(p) ==
    /\ stream[p].op = "XObject"
    /\ \/ ~resources.some
       \/ stream[p].arg \notin DOMAIN resources.value
       \/ resources.value[stream[p].arg].kind = "Form"

\* C16: an XObject operator whose name is absent from the XObject table, or
\* met on a page without resources, or resolving to a non-image XObject,
\* emits no image, raises no error, and leaves the CTM, the save stack and
\* the inline counter as they were.
C16_UnknownXObjectAbsorbed ==
    (api = "images" /\ pos >= 1 /\ NamesNoImage(pos)) =>
        /\ result = "ok"
        /\ images = lastOp.before.images
        /\ ctm = lastOp.before.ctm
        /\ stack = lastOp.before.stack
        /\ inline_index = lastOp.before.inline_index

\* C16 witness: with an image already emitted, a non-identity CTM, a saved
\* snapshot and an inline image counted, an XObject operator named a form;
\* and on a page without resources an XObject operator named "Im0".
C16_Witness ==
    /\ api = "images"
    /\ pos >= 1
    /\ NamesNoImage(pos)
    /\ \/ /\ resources.some
          /\ lastOp.arg = "Fm0"
          /\ Len(images) = 1 /\ inline_index = 1
          /\ ctm # Identity
       \/ /\ ~resources.some
          /\ lastOp.arg = "Im0"
          /\ stack # <<>>

\* The image that the operator at stream entry p hands to extract_image,
\* if it hands one.
ImageGiven(p) ==
    IF stream[p].op = "InlineImage" THEN Some(stream[p].arg)
    ELSE IF /\ stream[p].op = "XObject"
            /\ resources.some
            /\ stream[p].arg \in DOMAIN resources.value
            /\ resources.value[stream[p].arg].kind = "Image"
    THEN Some(resources.value[stream[p].arg].image)
    ELSE None

EightBit(img) ==
    ~img.bits_per_component.some \/ img.bits_per_component.value = 8

WrongRgbSize(img) ==
    /\ img.decodable /\ EightBit(img)
    /\ img.color_space \in {"DeviceRGB", "None"}
    /\ img.len # img.width * img.height * 3

WrongGraySize(img) ==
    /\ img.decodable /\ EightBit(img)
    /\ img.color_space = "DeviceGray"
    /\ img.len # img.width * img.height

\* C17: an 8-bit image with DeviceRGB or unspecified colour space whose
\* decoded length is not w*h*3 fails with "unexpected RGB image size", an
\* 8-bit DeviceGray image whose length is not w*h fails with "unexpected
\* grayscale image size"; the failure ends the pass, which returns the error
\* and none of the images emitted earlier in the stream.
C17_SizeMismatchIsFatal ==
    api = "images" =>
        /\ \A p \in 1..pos :
               ImageGiven(p).some =>
                   LET img == ImageGiven(p).value
                   IN /\ WrongRgbSize(img) =>
                             (p = pos /\ result = "unexpected RGB image size")
                      /\ WrongGraySize(img) =>
                             (p = pos /\ result = "unexpected grayscale image size")
        /\ result # "ok" => images = <<>>

\* C17 witness: an image had been emitted when a later operator gave an
\* image of the wrong size; the pass ended with the error and no image.
C17_Witness ==
    /\ api = "images"
    /\ pos >= 2
    /\ ImageGiven(pos).some
    /\ WrongGraySize(ImageGiven(pos).value) \/ WrongRgbSize(ImageGiven(pos).value)
    /\ lastOp.before.images # <<>>
    /\ images = <<>>
    /\ result # "ok"

\* The format tag the spec gives for each outermost filter.
FormatOfFilter ==
    [f \in StreamFilters |->
        CASE f = "DCTDecode" -> "jpeg"
          [] f = "JPXDecode" -> "jpx"
          [] f = "JBIG2Decode" -> "jbig2"
          [] f = "CCITTFaxDecode" -> "fax"
          [] f = "FlateDecode" -> "flate"
          [] OTHER -> "raw"]

\* The image is re-encoded as PNG: 8 bits per component with DeviceRGB, no
\* colour space, or DeviceGray.
PngClass(img) ==
    EightBit(img) /\ img.color_space \in {"DeviceRGB", "None", "DeviceGray"}

\* C18: every image outside the two PNG cases (other colour spaces, and
\* DeviceRGB/DeviceGray at other bit depths) is returned as its raw filtered
\* stream with format jpeg, jpx, jbig2, fax, flate or raw by its outermost
\* filter, whenever the raw filtered stream can be fetched, whether or not
\* the stream can be decoded to pixels.
C18_PassthroughNeedsOnlyRawStream ==
    (api = "extract_image" /\ image_result.some) =>
        LET img == given_image.value
        IN (~PngClass(img) /\ img.fetchable) =>
               image_result.value =
                   Ok([width |-> img.width, height |-> img.height,
                       format |-> FormatOfFilter[img.filter]])

InvalidDpi == dpi.kind # "finite" \/ dpi.value <= 0

\* C19: region_images fails with "dpi must be a positive finite value" for
\* every call whose dpi is not finite or is <= 0, whatever the rectangle
\* list, the empty list included, and it does so without having loaded the
\* rendering library or rendered the page.
C19_InvalidDpiAlwaysFails ==
    (api = "region_images" /\ pass = "done" /\ InvalidDpi) =>
        /\ result = "dpi must be a positive finite value"
        /\ bitmap = None
        /\ regions = <<>>

\* k = floor(n / d) and k = ceil(n / d) for d > 0, stated without division.
IsFloor(k, n, d) == k * d <= n /\ n < (k + 1) * d
IsCeil(k, n, d) == (k - 1) * d < n /\ n <= k * d

HalfPageRects == {<<0, 0, 612, 396>>, <<612, 396, 0, 0>>}

-----------------------------------------------------------------------------
(* Properties of whole calls, of the text scalars and of the path machine *)

\* The rectangle has no area left once canonicalised and clamped to the page.
ZeroAreaOnPage(r) ==
    \/ Clamp(Min2(r[1], r[3]), 0, PageWidth) >= Clamp(Max2(r[1], r[3]), 0, PageWidth)
    \/ Clamp(Min2(r[2], r[4]), 0, PageHeight) >= Clamp(Max2(r[2], r[4]), 0, PageHeight)

\* The one-based positions of the rectangles that fail.
FailingRects == {i \in 1..Len(rectangles) : ZeroAreaOnPage(rectangles[i])}

C22_LibraryLoadedAtMostOnce ==
    api = "region_images" => library_loads <= 1

\* What each page operation returns for a page that has nothing on it.
EmptyResult ==
    IF operation = "page_content"
    THEN [page_index |-> page.page_index, text |-> <<>>, images |-> <<>>,
          objects |-> <<>>, layouts |-> <<>>, items |-> <<>>]
    ELSE <<>>

\* C23: on a page with no content stream every page operation returns the
\* empty result (an empty list; for page_content the record with the page
\* index and empty lists), whatever the page's resource dictionary holds,
\* fonts that cannot be resolved included.
C23_NoContentStreamGivesEmpty ==
    (api = "page" /\ returned.some /\ ~page.contents.some) =>
        returned.value = Ok(EmptyResult)

\* C24: when a font of the page's resource dictionary cannot be resolved,
\* every page operation that interprets the content stream fails, also when
\* no operator of the stream selects that font.
C24_UnresolvedFontIsFatalEverywhere ==
    (api = "page" /\ returned.some /\ page.contents.some
         /\ ~page.fonts_resolve) =>
        ~returned.value.ok

\* The page operations that call collect_fonts.
FontCollecting == {"text_runs", "layouts", "page_content"}

\* C24 (as the code has it): a font of the resource dictionary that cannot
\* be resolved fails text_runs, layouts and page_content on a page with a
\* content stream, also when no operator selects a font; images and paths
\* never resolve fonts and return what they return with resolvable fonts.
\* A font that resolves but has no ToUnicode map (F1) fails nothing.
C24_UnresolvedFontIsFatalWhereCollected ==
    (api = "page" /\ returned.some /\ page.contents.some) =>
        /\ (~page.fonts_resolve /\ operation \in FontCollecting) =>
               returned.value = Err("font")
        /\ operation = "paths" => returned.value = Ok(segments)
        /\ operation = "images" =>
               returned.value = IF result = "ok"
                                THEN Ok(to_pydicts("image", images))
                                ELSE Err(result)
        /\ (page.fonts_resolve /\ operation = "text_runs") =>
               returned.value = Ok(to_pydicts("text", blocks))

\* C24 witness: text_runs has failed on a page whose stream draws text
\* without ever selecting a font.
C24_Witness ==
    /\ api = "page"
    /\ operation = "text_runs"
    /\ ~page.fonts_resolve
    /\ page.contents = Some(<<Op("Save", <<>>), Op("TextDraw", <<72, 105>>)>>)
    /\ returned = Some(Err("font"))

\* The "type" of each entry of a list, in order.
TypesOf(entries) == [i \in 1..Len(entries) |-> entries[i].type]

\* A list of types made of a run of `first`, then a run of `second`, then a
\* run of `third`.
ThreeRuns(types, first, second, third) ==
    \E i \in 0..Len(types), j \in 0..Len(types) :
        /\ i <= j
        /\ \A k \in 1..Len(types) :
               types[k] = IF k <= i THEN first
                          ELSE IF k <= j THEN second ELSE third

\* C25: in the record page_content returns, items is the text entries, then
\* the image entries, then the path entries, each part in stream order, and
\* its length is the sum of the three; layouts is the text layouts, then the
\* image layouts, then the object layouts.
C25_PageContentListsAreConcatenations ==
    (api = "page" /\ operation = "page_content" /\ returned.some
         /\ returned.value.ok) =>
        LET content == returned.value.value
        IN /\ content.items = content.text \o content.images \o content.objects
           /\ Len(content.items) =
                  Len(content.text) + Len(content.images) + Len(content.objects)
           /\ page.contents.some =>
                  /\ content.text = to_pydicts("text", blocks)
                  /\ content.images = to_pydicts("image", images)
                  /\ content.objects = to_pydicts("path", segments)
           /\ \A list \in {blocks, images, segments} :
                  \A i \in 1..Len(list) - 1 : list[i].at < list[i + 1].at
           /\ ThreeRuns(TypesOf(content.layouts),
                        "text_layout", "image_layout", "object_layout")
           /\ Len(SelectSeq(content.layouts,
                            LAMBDA l : l.type = "image_layout")) =
                  Len(content.images)

\* C25 witness: the stream draws a rectangle and then an image; items and
\* layouts each hold the image's entry before the rectangle's.
C25_Witness ==
    /\ api = "page"
    /\ operation = "page_content"
    /\ returned.some
    /\ returned.value.ok
    /\ page.contents.some
    /\ Len(page.contents.value) = 2
    /\ page.contents.value[1].op = "Rect"
    /\ page.contents.value[2].op = "InlineImage"
    /\ TypesOf(returned.value.value.items) = <<"image", "path">>
    /\ TypesOf(returned.value.value.layouts) = <<"image_layout", "object_layout">>

\* The scalar fields of the text state: font, size, character and word
\* spacing, horizontal scale, leading, rise.
Scalars(st) ==
    <<st.current_font, st.font_size, st.char_spacing, st.word_spacing,
      st.horizontal_scale, st.leading, st.text_rise>>

\* C26: the text scalars outlive text objects.  BeginText and EndText leave
\* all seven unchanged, EndText leaves the two matrices unchanged as well,
\* and a scalar differs from its value before an operator only when the
\* operator is the one that sets it.
C26_TextScalarsPersist ==
    (api = "text_runs" /\ stream # <<>>) =>
        LET before == lastOp.before
        IN /\ lastOp.op \in {"BeginText", "EndText"} =>
                  Scalars(state) = Scalars(before)
           /\ lastOp.op = "EndText" => state = before
           /\ state.current_font # before.current_font => lastOp.op = "TextFont"
           /\ state.font_size # before.font_size => lastOp.op = "TextFont"
           /\ state.char_spacing # before.char_spacing => lastOp.op = "CharSpacing"
           /\ state.word_spacing # before.word_spacing => lastOp.op = "WordSpacing"
           /\ state.horizontal_scale # before.horizontal_scale =>
                  lastOp.op = "TextScaling"
           /\ state.leading # before.leading => lastOp.op = "Leading"
           /\ state.text_rise # before.text_rise => lastOp.op = "TextRise"

\* C26 witness: a character spacing set before a text object is still in
\* force after the object was opened and closed.
C26_Witness ==
    /\ api = "text_runs"
    /\ Len(stream) = 3
    /\ stream[1].op = "CharSpacing"
    /\ stream[2].op = "BeginText"
    /\ stream[3].op = "EndText"
    /\ state.char_spacing # DefaultTextState.char_spacing
    /\ state.char_spacing = stream[1].arg

\* The locals each collector declares when it is entered.
FreshText == [state |-> DefaultTextState, blocks |-> <<>>]
FreshGfx ==
    [ctm |-> Identity, stack |-> <<>>, images |-> <<>>, inline_index |-> 0,
     result |-> "ok"]
FreshPaths ==
    [segments |-> <<>>, current_point |-> None, subpath_start |-> None]

\* What the operation returns on the page when nothing was processed
\* before: computed from the fresh locals alone.  A set, because the number
\* of layout groups is left open.
FreshResults ==
    LET ops == page.contents.value
        ts == run_text(FreshText, ops, 1)
        gs == run_gfx(FreshGfx, ops, 1, resources)
        ps == run_paths(FreshPaths, ops, 1)
        text_entries == to_pydicts("text", ts.blocks)
        image_entries == to_pydicts("image", gs.images)
        layouts ==
            {text_groups \o build_image_layouts(gs.images) \o object_groups :
                text_groups \in GroupedLayouts("text_layout", ts.blocks),
                object_groups \in GroupedLayouts("object_layout", ps.segments)}
    IN IF operation \in FontCollecting /\ ~page.fonts_resolve
       THEN {Err("font")}
       ELSE IF ~page.contents.some THEN {Ok(EmptyResult)}
       ELSE IF operation = "text_runs" THEN {Ok(text_entries)}
       ELSE IF operation = "paths" THEN {Ok(ps.segments)}
       ELSE IF gs.result # "ok" THEN {Err(gs.result)}
       ELSE IF operation = "images" THEN {Ok(image_entries)}
       ELSE IF operation = "layouts" THEN {Ok(l) : l \in layouts}
       ELSE {Ok([page_index |-> page.page_index,
                 text |-> text_entries,
                 images |-> image_entries,
                 objects |-> to_pydicts("path", ps.segments),
                 layouts |-> l,
                 items |-> text_entries \o image_entries
                               \o to_pydicts("path", ps.segments)]) :
                l \in layouts}

\* C27: page operations share no mutable state.  Every call starts from a
\* fresh text state, the identity CTM, an empty stack, no current point and
\* inline counter 0, and what it returns is what it returns when nothing
\* was processed before, whatever the process has processed already.
C27_CallsShareNoState ==
    api = "page" =>
        /\ ~returned.some =>
               /\ TextLocals = FreshText
               /\ GfxLocals = FreshGfx
               /\ PathLocals = FreshPaths
        /\ returned.some => returned.value \in FreshResults

\* C27 witness: the second call of a process has returned the one inline
\* image of its page, numbered inline_1 again.
C27_Witness ==
    /\ api = "page"
    /\ calls = 1
    /\ operation = "images"
    /\ returned.some
    /\ returned.value.ok
    /\ Len(returned.value.value) = 1
    /\ returned.value.value[1].record.name = inline_name(1)

\* The segments the operator at position p of the stream emitted.
EmittedAt(p) == SelectSeq(segments, LAMBDA s : s.at = p)

\* C28: after Close the current point equals the subpath start in every
\* state, also when a current point exists without a subpath start (LineTo
\* or CurveTo before any MoveTo or Rect); Close emits the closing line
\* exactly when both points exist.
C28_CloseReturnsToSubpathStart ==
    (api = "paths" /\ lastOp.op = "Close") =>
        /\ current_point = subpath_start
        /\ EmittedAt(pos) # <<>> <=>
               (lastOp.before.current_point.some
                    /\ lastOp.before.subpath_start.some)

\* The first and the last point of a segment.
FirstPoint(s) == s.points[1]
LastPoint(s) == s.points[Len(s.points)]
AsPair(p) == <<p.x, p.y>>

\* C29: LineTo and CurveTo emit a segment exactly when a current point
\* exists and always make p the current point; every line and curve starts
\* at the current point the operator before it left, so that within a
\* subpath each segment starts where the segment before it ended.
C29_PathContinuity ==
    api = "paths" =>
        /\ lastOp.op \in {"LineTo", "CurveTo"} =>
               /\ EmittedAt(pos) # <<>> <=> lastOp.before.current_point.some
               /\ current_point =
                      Some(IF lastOp.op = "LineTo" THEN lastOp.arg
                           ELSE lastOp.arg[3])
        /\ \A i \in 1..Len(segments) :
               segments[i].kind \in {"line", "curve"} =>
                   /\ stream[segments[i].at].before.current_point.some
                   /\ FirstPoint(segments[i]) =
                          AsPair(stream[segments[i].at].before.current_point.value)
        /\ \A i \in 2..Len(segments) :
               (/\ segments[i].kind \in {"line", "curve"}
                /\ \A p \in segments[i - 1].at + 1 .. segments[i].at - 1 :
                       stream[p].op # "MoveTo") =>
                   FirstPoint(segments[i]) = LastPoint(segments[i - 1])

\* C29 witness: MoveTo, LineTo, CurveTo drew a line and a curve that starts
\* at the line's end, away from the line's start.
C29_Witness ==
    /\ api = "paths"
    /\ Len(stream) = 3
    /\ stream[1].op = "MoveTo"
    /\ stream[2].op = "LineTo"
    /\ stream[3].op = "CurveTo"
    /\ Len(segments) = 2
    /\ FirstPoint(segments[2]) = LastPoint(segments[1])
    /\ LastPoint(segments[1]) # FirstPoint(segments[1])

\* The operators of the graphics state, and those of text and paths.
GraphicsStateOps == {"Save", "Restore", "Transform"}
TextAndPathOps ==
    {"BeginText", "EndText", "SetTextMatrix", "MoveTextPosition",
     "TextNewline", "TextFont", "CharSpacing", "WordSpacing", "TextScaling",
     "Leading", "TextRise", "TextDraw", "TextDrawAdjusted",
     "MoveTo", "LineTo", "CurveTo", "Rect", "Close"}

\* The stream without the operators of a set.
Without(ops, names) == SelectSeq(ops, LAMBDA o : o.op \notin names)

\* Outputs without the stream position they were emitted at.
Unplaced(outputs) == [i \in 1..Len(outputs) |-> [outputs[i] EXCEPT !.at = 0]]

\* C30: graphics-state operators do not leak into text or paths, nor text
\* and path operators into the graphics state: the text runs and the path
\* segments of a page are those of its stream with every Save, Restore and
\* Transform removed, and the CTM and its stack are those of the stream
\* with every text and path operator removed.
C30_GraphicsStateDoesNotLeak ==
    (api = "page" /\ returned.some /\ page.contents.some) =>
        LET ops == page.contents.value
            plain == Without(ops, GraphicsStateOps)
            bare == Without(ops, TextAndPathOps)
            ran_text == operation \in FontCollecting /\ page.fonts_resolve
            ran_gfx == operation = "images"
                           \/ (operation \in {"layouts", "page_content"}
                                   /\ page.fonts_resolve)
            ran_paths == operation = "paths"
                             \/ (operation \in {"layouts", "page_content"}
                                     /\ returned.value.ok)
        IN /\ ran_text =>
                  Unplaced(blocks) = Unplaced(run_text(FreshText, plain, 1).blocks)
           /\ ran_paths =>
                  Unplaced(segments) =
                      Unplaced(run_paths(FreshPaths, plain, 1).segments)
           /\ ran_gfx =>
                  /\ ctm = run_gfx(FreshGfx, bare, 1, resources).ctm
                  /\ stack = run_gfx(FreshGfx, bare, 1, resources).stack

\* C30 witness: page_content ran on a stream that transforms and then
\* draws text; the run is the one of the stream without the transform, and
\* the CTM is the one of the stream without the draw.
C30_Witness ==
    /\ api = "page"
    /\ operation = "page_content"
    /\ returned.some
    /\ returned.value.ok
    /\ page.contents.some
    /\ Len(page.contents.value) = 2
    /\ page.contents.value[1].op = "Transform"
    /\ page.contents.value[2].op = "TextDraw"
    /\ Len(blocks) = 1
    /\ ctm # Identity

-----------------------------------------------------------------------------
(* Properties of the line anchor, of run continuity, of caption assignment,
   of clustering and of the pixel box *)

\* C31: the text-line matrix is the line anchor.  TextDraw and
\* TextDrawAdjusted never modify it; right after BeginText, SetTextMatrix,
\* MoveTextPosition and TextNewline the text matrix equals the text-line
\* matrix (both equal M after SetTextMatrix M); TextNewline moves the line
\* matrix of before by (0, -leading), whatever the draws before it did to
\* the text matrix, which is the effect of MoveTextPosition(0, -leading).
C31_LineMatrixIsLineAnchor ==
    (api = "text_runs" /\ stream # <<>>) =>
        LET before == lastOp.before
        IN /\ lastOp.op \in {"TextDraw", "TextDrawAdjusted"} =>
                  state.text_line_matrix = before.text_line_matrix
           /\ lastOp.op \in {"BeginText", "SetTextMatrix", "MoveTextPosition",
                             "TextNewline"} =>
                  state.text_matrix = state.text_line_matrix
           /\ lastOp.op = "SetTextMatrix" => state.text_matrix = lastOp.arg
           /\ lastOp.op = "TextNewline" =>
                  /\ state.text_line_matrix =
                         multiply_matrix(before.text_line_matrix,
                                         Translate(0, -before.leading))
                  /\ state = translate_line(before, 0, -before.leading)

\* C31 witness: a draw advanced the text matrix away from the line matrix,
\* and the TextNewline after it put the text matrix back on the line.
C31_Witness ==
    /\ api = "text_runs"
    /\ Len(stream) = 3
    /\ stream[1].op = "Leading"
    /\ stream[2].op = "TextDraw"
    /\ stream[3].op = "TextNewline"
    /\ stream[3].before.text_matrix # stream[3].before.text_line_matrix
    /\ state.text_matrix = state.text_line_matrix
    /\ state.text_matrix # stream[3].before.text_line_matrix

\* The runs the operator at position p of the stream emitted.
RunsAt(p) == SelectSeq(blocks, LAMBDA b : b.at = p)

\* C32: a run's baseline anchor is the text matrix before the draw applied
\* to (0, rise); of two TextDraw operators that follow each other directly
\* the second run's baseline anchor is the first run's text matrix applied
\* to its baseline end point (displacement, rise), for every text matrix.
C32_RunContinuity ==
    api = "text_runs" =>
        \A p \in 1..pos :
            (stream[p].op = "TextDraw" /\ RunsAt(p) # <<>>) =>
                LET st == stream[p].before
                    run == RunsAt(p)[1]
                    displacement == RefDisplacement(st, Decoded(st, stream[p].arg).codes)
                IN /\ <<run.baseline_x, run.baseline_y>> =
                          apply_matrix(st.text_matrix, <<0, st.text_rise>>)
                   /\ (/\ p < pos
                       /\ stream[p + 1].op = "TextDraw"
                       /\ RunsAt(p + 1) # <<>>) =>
                          <<RunsAt(p + 1)[1].baseline_x,
                            RunsAt(p + 1)[1].baseline_y>> =
                              apply_matrix(st.text_matrix,
                                           <<displacement, st.text_rise>>)

\* C33: in each caption pass the target chosen for a caption has the
\* smallest y_gap among the pass's candidates: no candidate has a y_gap
\* more than 1e-3 smaller than the chosen one's.
C33_ChosenHasSmallestYGap ==
    (api = "layouts" /\ lastPick.some /\ lastPick.value.chosen.some) =>
        LET gaps == lastPick.value.gaps
            chosen == lastPick.value.chosen.value
        IN \A i \in 1..Len(gaps) :
               IsCandidate(gaps[i]) =>
                   gaps[i][2] >= gaps[chosen][2] - CAPTION_EPSILON

\* The bboxes of the captions attached to a layout.
CaptionBoxes(layout) ==
    {layout.captions[i].bbox : i \in 1..Len(layout.captions)}

\* The example of the specification: a caption at (50, 380)-(150, 395), an
\* image with y0 = 400 (y_gap 5) and an image with y0 = 500 (y_gap 105).
ExampleNear == Box(0, 400, 30, 450)
ExampleFar == Box(50, 500, 150, 560)
ExampleCaption == Box(50, 380, 150, 395)

\* C34: a caption is attached only to a candidate: at the moment of
\* attachment the gaps between the caption's bbox and the target's bbox are
\* x_gap <= 40 and y_gap <= 80; a caption for which the passes found no
\* candidate stays unattached; the caption of the example never attaches to
\* the image 105 above it.
C34_AttachedOnlyToCandidates ==
    api = "layouts" =>
        /\ (lastPick.some /\ lastPick.value.chosen.some) =>
               LET gaps == lastPick.value.gaps[lastPick.value.chosen.value]
               IN /\ gaps[1] <= 40 * Milli
                  /\ gaps[2] <= 80 * Milli
        /\ (lastPick.some /\ ~lastPick.value.chosen.some) =>
               /\ \A i \in 1..Len(lastPick.value.gaps) :
                      \/ lastPick.value.gaps[i][1] > 40 * Milli
                      \/ lastPick.value.gaps[i][2] > 80 * Milli
               /\ caption_assigned[lastPick.value.caption] = FALSE
        /\ \A i \in 1..Len(image_layouts) :
               image_layouts[i].bbox[4] = ExampleFar[4] =>
                   ExampleCaption \notin CaptionBoxes(image_layouts[i])

\* C34 witness: the caption of the example met the near image and the far
\* image; it is attached to the near one.
C34_Witness ==
    /\ api = "layouts"
    /\ pass = "images"
    /\ Len(image_layouts) = 2
    /\ lastPick.some
    /\ lastPick.value.gaps = <<<<20 * Milli, 5 * Milli>>, <<0, 105 * Milli>>>>
    /\ lastPick.value.chosen = Some(1)
    /\ image_layouts[1].bbox = bbox_union(ExampleNear, ExampleCaption)
    /\ image_layouts[2].bbox = ExampleFar
    /\ image_layouts[2].captions = <<>>

\* The indices of the captions attached to the layouts of a list.
CaptionsOf(layouts) ==
    UNION {{layouts[i].captions[j].idx : j \in 1..Len(layouts[i].captions)} :
               i \in 1..Len(layouts)}

\* C35: image layouts are offered before object layouts.  No object layout
\* receives a caption before every caption had its turn with the image
\* layouts; a caption with an image candidate at its turn is attached to an
\* image layout, and such a caption is never tried against, or attached to,
\* an object layout, whatever the object layouts' gaps are.
C35_ImagesOfferedFirst ==
    api = "layouts" =>
        /\ pass \in {"build", "images"} => CaptionsOf(object_layouts) = {}
        /\ (lastPick.some /\ lastPick.value.pass = "images") =>
               (lastPick.value.chosen.some <=>
                    \E i \in 1..Len(lastPick.value.gaps) :
                        IsCandidate(lastPick.value.gaps[i]))
        /\ (lastPick.some /\ lastPick.value.pass = "objects") =>
               /\ lastPick.value.caption \notin CaptionsOf(image_layouts)
               /\ \A i \in 1..Len(image_layouts) :
                      image_layouts[i].captions = <<>> =>
                          ~IsCandidate(bbox_gaps(
                               image_layouts[i].bbox,
                               text_layouts[lastPick.value.caption].bbox))
        /\ CaptionsOf(image_layouts) \cap CaptionsOf(object_layouts) = {}

\* C35 witness: the caption "Fig. 2" is 25 below an image and 10 above an
\* object; the image pass attached it to the image, and the finished call
\* has it on the image and not on the object.
C35_Witness ==
    /\ api = "layouts"
    /\ pass = "done"
    /\ Len(text_layouts) = 1
    /\ text_layouts[1].combined = "Fig. 2"
    /\ Len(image_layouts) = 1
    /\ image_layouts[1].bbox = bbox_union(Box(0, 400, 30, 450), text_layouts[1].bbox)
    /\ bbox_gaps(Box(0, 400, 30, 450), text_layouts[1].bbox)[2] = 25 * Milli
    /\ Len(object_layouts) = 1
    /\ bbox_gaps(object_layouts[1].bbox, text_layouts[1].bbox) = <<0, 10 * Milli>>
    /\ CaptionsOf(image_layouts) = {1}
    /\ CaptionsOf(object_layouts) = {}

\* Box `inner` lies inside box `outer`.
Contains(outer, inner) ==
    /\ outer[1] <= inner[1]
    /\ outer[2] <= inner[2]
    /\ inner[3] <= outer[3]
    /\ inner[4] <= outer[4]

\* Every caption of the list is a caption text layout with the bbox that
\* layout has, and the layout's bbox contains it.
CaptionsInside(layouts) ==
    \A i \in 1..Len(layouts) :
        \A j \in 1..Len(layouts[i].captions) :
            LET caption == layouts[i].captions[j]
            IN /\ caption.idx \in 1..Len(text_layouts)
               /\ text_layouts[caption.idx].is_caption
               /\ text_layouts[caption.idx].bbox = caption.bbox
               /\ Contains(layouts[i].bbox, caption.bbox)

\* A step leaves each layout of the list as it is, or unites one caption's
\* bbox onto its bbox and appends that caption to its list.
GrowsByCaptions(old, new) ==
    /\ Len(new) = Len(old)
    /\ \A i \in 1..Len(old) :
           \/ new[i] = old[i]
           \/ \E c \in 1..Len(text_layouts) :
                  /\ text_layouts[c].is_caption
                  /\ new[i].captions =
                         Append(old[i].captions, CaptionInfo(text_layouts[c], c))
                  /\ new[i].bbox =
                         <<Min2(old[i].bbox[1], text_layouts[c].bbox[1]),
                           Min2(old[i].bbox[2], text_layouts[c].bbox[2]),
                           Max2(old[i].bbox[3], text_layouts[c].bbox[3]),
                           Max2(old[i].bbox[4], text_layouts[c].bbox[4])>>

\* C36: image and object layouts start with their original bbox and no
\* caption; their bbox changes only by uniting the bbox of a caption that
\* is appended to their list, so after the passes it is the union of the
\* original bbox with the bboxes of all its captions and contains each of
\* them, a layout without captions has its original bbox, and the captions'
\* text layouts keep their bbox and stay in the text-layout list.
C36_BboxIsUnionWithCaptions ==
    /\ [](api = "layouts" =>
             /\ CaptionsInside(image_layouts)
             /\ CaptionsInside(object_layouts)
             /\ \A i \in 1..Len(image_layouts) :
                    image_layouts[i].captions = <<>> =>
                        image_layouts[i].bbox \in ImageBoxes
             /\ \A i \in 1..Len(object_layouts) :
                    object_layouts[i].captions = <<>> =>
                        object_layouts[i].bbox \in ObjectBoxes)
    /\ [][api = "layouts" =>
             /\ pass # "build" => text_layouts' = text_layouts
             /\ GrowsByCaptions(image_layouts, image_layouts')
             /\ GrowsByCaptions(object_layouts, object_layouts')]_vars

\* C36 witness: both figure captions are attached to the first image, whose
\* bbox is its original bbox united with both; the second image has no
\* caption and its original bbox; both captions are still text layouts.
C36_Witness ==
    /\ api = "layouts"
    /\ pass = "done"
    /\ Len(image_layouts) = 2
    /\ Len(image_layouts[1].captions) = 2
    /\ image_layouts[1].bbox =
           bbox_union(bbox_union(Box(0, 400, 30, 450), Box(50, 380, 150, 395)),
                      Box(50, 360, 150, 375))
    /\ image_layouts[2].captions = <<>>
    /\ image_layouts[2].bbox = Box(50, 500, 150, 560)
    /\ Len(text_layouts) = 2
    /\ \A i \in 1..2 : text_layouts[i].is_caption

\* The gap between two intervals: 0 when they overlap.
IntervalGap(lo1, hi1, lo2, hi2) == Max2(0, Max2(lo2 - hi1, lo1 - hi2))

\* A group's union box is within the run's own margins, 0.8 h + 4
\* horizontally and 1.5 h + 4 vertically, h = max(|y1 - y0|, 1); tenfold,
\* to stay in whole numbers.
WithinRunMargins(box, run) ==
    LET h == Max2(Abs(run.y1 - run.y0), Unit)
    IN /\ 10 * IntervalGap(box[1], box[3], run.x0, run.x1) <= 8 * h + 40 * Unit
       /\ 10 * IntervalGap(box[2], box[4], run.y0, run.y1) <= 15 * h + 40 * Unit

\* The union of the boxes of the runs named by `ats`.
UnionOfRuns(ats) ==
    <<MinOf([i \in 1..Len(ats) |-> blocks[ats[i]].x0]),
      MinOf([i \in 1..Len(ats) |-> blocks[ats[i]].y0]),
      MaxOf([i \in 1..Len(ats) |-> blocks[ats[i]].x1]),
      MaxOf([i \in 1..Len(ats) |-> blocks[ats[i]].y1])>>

\* The lists of run names partition the set `all`: every name of `all` is
\* in exactly one list, exactly once.
Partition(lists, all) ==
    /\ \A a \in all :
           Cardinality({<<i, j>> \in (1..Len(lists)) \X (1..Cardinality(all)) :
                           j <= Len(lists[i]) /\ lists[i][j] = a}) = 1
    /\ \A i \in 1..Len(lists) : \A j \in 1..Len(lists[i]) : lists[i][j] \in all

\* C37: text clustering is first-fit and conserving.  Runs are taken in
\* descending y1, ties in ascending x0; each run joins the first existing
\* group whose union bbox is within the run's own margins and otherwise
\* starts a new group; every run is a line of exactly one text layout,
\* whose bbox is the union of its runs' bboxes and whose lines are in
\* descending center_y.
C37_ClusteringFirstFitConserving ==
    api = "text_layouts" =>
        LET taken == sort_blocks(blocks)
            group_runs == [i \in 1..Len(grouped_layouts) |->
                              [j \in 1..Len(grouped_layouts[i].lines) |->
                                  grouped_layouts[i].lines[j].at]]
        IN /\ Len(taken) = Len(blocks)
           /\ {taken[i].at : i \in 1..Len(taken)} = 1..Len(blocks)
           /\ \A i \in 1..Len(taken) : taken[i] = blocks[taken[i].at]
           /\ \A i \in 1..Len(taken) : \A j \in 1..Len(taken) :
                  i < j => \/ taken[i].y1 > taken[j].y1
                           \/ /\ taken[i].y1 = taken[j].y1
                              /\ taken[i].x0 <= taken[j].x0
           /\ lastPick.some =>
                  LET run == lastPick.value.block
                      boxes == lastPick.value.boxes
                      near == {i \in 1..Len(boxes) : WithinRunMargins(boxes[i], run)}
                  IN /\ run = taken[cursor]
                     /\ lastPick.value.joined =
                            IF near = {} THEN Len(boxes) + 1 ELSE Least(near)
           /\ Partition(group_runs, {taken[i].at : i \in 1..cursor})
           /\ \A i \in 1..Len(grouped_layouts) :
                  grouped_layouts[i].bbox = UnionOfRuns(group_runs[i])
           /\ pass = "done" =>
                  /\ Partition([i \in 1..Len(text_layouts) |-> text_layouts[i].runs],
                               1..Len(blocks))
                  /\ \A i \in 1..Len(text_layouts) :
                         LET layout == text_layouts[i]
                         IN /\ layout.bbox = UnionOfRuns(layout.runs)
                            /\ Len(layout.lines) = Len(layout.runs)
                            /\ \A j \in 1..Len(layout.runs) :
                                   /\ layout.lines[j] = blocks[layout.runs[j]].text
                                   /\ 2 * layout.center_ys[j] =
                                          blocks[layout.runs[j]].y0
                                              + blocks[layout.runs[j]].y1
                            /\ \A j \in 1..Len(layout.runs) - 1 :
                                   layout.center_ys[j] >= layout.center_ys[j + 1]

\* C37 witness: "Body" and "Right" started two groups; the lower run
\* "between" is within its margins of both and joined the first; the result
\* is the layout of "Body" and "between" and the layout of "Right".
C37_Witness ==
    /\ api = "text_layouts"
    /\ pass = "done"
    /\ Len(blocks) = 3
    /\ Len(text_layouts) = 2
    /\ text_layouts[1].lines = <<"Body", "between">>
    /\ text_layouts[1].bbox = <<50 * Unit, 690 * Unit, 290 * Unit, 712 * Unit>>
    /\ text_layouts[2].lines = <<"Right">>
    /\ \A i \in 1..3 :
           blocks[i].text = "between" =>
               WithinRunMargins(text_layouts[2].bbox, blocks[i])

\* The bbox of a segment: the least and greatest coordinates of its points.
SegmentBox(segment) ==
    <<MinOf([i \in 1..Len(segment.points) |-> segment.points[i][1]]),
      MinOf([i \in 1..Len(segment.points) |-> segment.points[i][2]]),
      MaxOf([i \in 1..Len(segment.points) |-> segment.points[i][1]]),
      MaxOf([i \in 1..Len(segment.points) |-> segment.points[i][2]])>>

\* Two boxes are within a gap of 4 on both axes.
WithinFour(a, b) ==
    /\ IntervalGap(a[1], a[3], b[1], b[3]) <= 4
    /\ IntervalGap(a[2], a[4], b[2], b[4]) <= 4

\* The position in `members` of the first segment of the kind.
FirstOfKind(members, kind) ==
    Least({j \in 1..Len(members) : segments[members[j]].kind = kind})

\* C38: object layouts are built first-fit in segment order.  Each segment
\* is merged into the first existing layout whose current bbox is within a
\* gap of 4 on both axes and otherwise starts a new layout; every segment
\* is in exactly one layout; a layout's bbox contains (and is the union of)
\* the bboxes of its segments; its kinds are those of its segments, without
\* duplicates, in the order of their first occurrence.
C38_ObjectLayoutsFirstFit ==
    api = "object_layouts" =>
        /\ lastPick.some =>
               LET segment == lastPick.value.segment
                   before == lastPick.value.before
                   near == {i \in 1..Len(before) :
                               WithinFour(before[i].bbox, SegmentBox(segment))}
               IN /\ segment = segments[cursor]
                  /\ lastPick.value.joined =
                         {IF near = {} THEN Len(before) + 1 ELSE Least(near)}
                  /\ Len(object_layouts) =
                         Len(before) + (IF near = {} THEN 1 ELSE 0)
        /\ Partition([i \in 1..Len(object_layouts) |-> object_layouts[i].members],
                     1..cursor)
        /\ \A i \in 1..Len(object_layouts) :
               LET layout == object_layouts[i]
                   kinds_in == {segments[layout.members[j]].kind :
                                   j \in 1..Len(layout.members)}
               IN /\ \A j \in 1..Len(layout.members) :
                         Contains(layout.bbox,
                                  SegmentBox(segments[layout.members[j]]))
                  /\ \A side \in 1..4 :
                         \E j \in 1..Len(layout.members) :
                             layout.bbox[side] =
                                 SegmentBox(segments[layout.members[j]])[side]
                  /\ {layout.kinds[k] : k \in 1..Len(layout.kinds)} = kinds_in
                  /\ Len(layout.kinds) = Cardinality(kinds_in)
                  /\ \A k \in 1..Len(layout.kinds) - 1 :
                         FirstOfKind(layout.members, layout.kinds[k])
                             < FirstOfKind(layout.members, layout.kinds[k + 1])

\* C38 witness: a rectangle and a far line started two layouts; the long
\* line is within 4 of both and was merged into the first, whose kinds are
\* rect, line.
C38_Witness ==
    /\ api = "object_layouts"
    /\ pass = "done"
    /\ Len(segments) = 3
    /\ Len(object_layouts) = 2
    /\ object_layouts[1].members = <<1, 3>>
    /\ object_layouts[1].kinds = <<"rect", "line">>
    /\ object_layouts[1].bbox = <<0, 0, 97, 97>>
    /\ object_layouts[2].members = <<2>>
    /\ WithinFour(object_layouts[2].bbox, SegmentBox(segments[3]))

\* The clamped page-space rectangle of a rectangle of four f32.
ClampedRect(r) ==
    <<f32_clamp(f32_min(r[1], r[3]), f32_zero, f32_from(PageWidth, 0)),
      f32_clamp(f32_min(r[2], r[4]), f32_zero, f32_from(PageHeight, 0)),
      f32_clamp(f32_max(r[1], r[3]), f32_zero, f32_from(PageWidth, 0)),
      f32_clamp(f32_max(r[2], r[4]), f32_zero, f32_from(PageHeight, 0))>>

\* C39: for every rectangle whose clamped page-space rectangle has positive
\* area (x0 < x1 and y0 < y1 within the page), the scales being positive,
\* the pixel box satisfies 0 <= left < right <= image_width and
\* 0 <= top < bottom <= image_height, the record's width and height are
\* right - left and bottom - top, and "produced an empty region after
\* scaling" is not raised.
C39_PixelBoxNeverEmpty ==
    (/\ api = "pixel_box"
     /\ pass = "done"
     /\ f32_lt(ClampedRect(rectangles[1])[1], ClampedRect(rectangles[1])[3])
     /\ f32_lt(ClampedRect(rectangles[1])[2], ClampedRect(rectangles[1])[4]))
    => /\ result = "ok"
       /\ Len(regions) = 1
       /\ LET box == regions[1].pixel_bounds
          IN /\ 0 <= box[1] /\ box[1] < box[3] /\ box[3] <= bitmap.value[1]
             /\ 0 <= box[2] /\ box[2] < box[4] /\ box[4] <= bitmap.value[2]
             /\ regions[1].width = box[3] - box[1]
             /\ regions[1].height = box[4] - box[2]
=============================================================================
